---- MODULE Spec2Model ----
(***************************************************************************)
(* Candidate-job matching engine of the resume screening application:      *)
(* the job catalog cache, the relevance pre-filter, the match scorer and   *)
(* the paginated match operation of DataProcessor (src/data_processor.py)  *)
(* with JobMatcher.calculate_match_score_sync (src/ai_processor.py).       *)
(*                                                                         *)
(* Python strings are modelled as sequences of one-character strings, so   *)
(* that lower(), strip(), split() and the substring test are computed.     *)
(***************************************************************************)
EXTENDS Integers, Sequences, FiniteSets, TLC

(***************************************************************************)
(* Python string primitives                                                *)
(***************************************************************************)

UpperCase ==
    {"A", "B", "C", "D", "E", "F", "G", "H", "I", "J", "K", "L", "M", "N", "O",
     "P", "Q", "R", "S", "T", "U", "V", "W", "X", "Y", "Z"}

\* str.lower() on one character.
LowerChar(c) ==
    IF c \notin UpperCase THEN c ELSE
    CASE c = "A" -> "a" [] c = "B" -> "b" [] c = "C" -> "c" [] c = "D" -> "d"
      [] c = "E" -> "e" [] c = "F" -> "f" [] c = "G" -> "g" [] c = "H" -> "h"
      [] c = "I" -> "i" [] c = "J" -> "j" [] c = "K" -> "k" [] c = "L" -> "l"
      [] c = "M" -> "m" [] c = "N" -> "n" [] c = "O" -> "o" [] c = "P" -> "p"
      [] c = "Q" -> "q" [] c = "R" -> "r" [] c = "S" -> "s" [] c = "T" -> "t"
      [] c = "U" -> "u" [] c = "V" -> "v" [] c = "W" -> "w" [] c = "X" -> "x"
      [] c = "Y" -> "y" [] c = "Z" -> "z"

\* A sequence given by its elements, evaluated once.
AsList(f) == SubSeq(f, 1, Len(f))

\* str.lower()
Lower(s) == AsList([i \in 1..Len(s) |-> LowerChar(s[i])])

\* The characters str.strip() and str.split() treat as whitespace.
Whitespace == {" ", "\t", "\n", "\r"}

\* The characters of skill.strip('" []') and skill.strip('"[]').
QuoteBracketSpace == {"\"", " ", "[", "]"}
QuoteBracket == {"\"", "[", "]"}

\* str.strip(chars): drop leading and trailing characters that are in chars.
RECURSIVE FirstKept(_, _, _)
FirstKept(s, chars, i) ==
    IF i > Len(s) \/ s[i] \notin chars THEN i ELSE FirstKept(s, chars, i + 1)

RECURSIVE LastKept(_, _, _)
LastKept(s, chars, i) ==
    IF i < 1 \/ s[i] \notin chars THEN i ELSE LastKept(s, chars, i - 1)

StripChars(s, chars) ==
    SubSeq(s, FirstKept(s, chars, 1), LastKept(s, chars, Len(s)))

\* str.strip()
Strip(s) == StripChars(s, Whitespace)

\* k in s (substring test)
Contains(s, k) ==
    \E i \in 0..(Len(s) - Len(k)) : \A j \in 1..Len(k) : s[i + j] = k[j]

\* str.split(sep) for a one-character separator: the fields between the
\* separators, empty fields kept ("".split(",") is [""]).
RECURSIVE SplitOn(_, _)
SplitOn(s, sep) ==
    LET at == {i \in 1..Len(s) : s[i] = sep}
    IN  IF at = {} THEN <<s>>
        ELSE LET p == CHOOSE i \in at : \A j \in at : i <= j
             IN  <<SubSeq(s, 1, p - 1)>> \o SplitOn(SubSeq(s, p + 1, Len(s)), sep)

\* str.split(): the maximal runs of non-whitespace characters.
RECURSIVE SplitWords(_)
SplitWords(s) ==
    LET t == {i \in 1..Len(s) : s[i] \notin Whitespace}
    IN  IF t = {} THEN <<>>
        ELSE LET lo == CHOOSE i \in t : \A j \in t : i <= j
                 ws == {i \in lo..Len(s) : s[i] \in Whitespace}
                 hi == IF ws = {} THEN Len(s)
                       ELSE (CHOOSE i \in ws : \A j \in ws : i <= j) - 1
             IN  <<SubSeq(s, lo, hi)>> \o SplitWords(SubSeq(s, hi + 1, Len(s)))

Digits == {"0", "1", "2", "3", "4", "5", "6", "7", "8", "9"}

\* str.isdigit()
IsDigit(w) == Len(w) > 0 /\ \A i \in 1..Len(w) : w[i] \in Digits

DigitValue(c) ==
    CASE c = "0" -> 0 [] c = "1" -> 1 [] c = "2" -> 2 [] c = "3" -> 3
      [] c = "4" -> 4 [] c = "5" -> 5 [] c = "6" -> 6 [] c = "7" -> 7
      [] c = "8" -> 8 [] c = "9" -> 9

\* int(word) for a word of digits
RECURSIVE ToInt(_)
ToInt(w) ==
    IF Len(w) = 0 THEN 0
    ELSE 10 * ToInt(SubSeq(w, 1, Len(w) - 1)) + DigitValue(w[Len(w)])

\* The set of the elements of a sequence.
Range(q) == {q[i] : i \in 1..Len(q)}

(***************************************************************************)
(* Loading the catalog: DataProcessor._load_jobs_from_csv                  *)
(***************************************************************************)

\* The domain keywords of the relevance filter (a Python set literal).
tech_keywords ==
    { <<"d", "e", "v", "e", "l", "o", "p", "e", "r">>,
      <<"e", "n", "g", "i", "n", "e", "e", "r">>,
      <<"p", "r", "o", "g", "r", "a", "m", "m", "e", "r">>,
      <<"s", "o", "f", "t", "w", "a", "r", "e">>,
      <<"w", "e", "b">>,
      <<"f", "u", "l", "l", " ", "s", "t", "a", "c", "k">>,
      <<"b", "a", "c", "k", "e", "n", "d">>,
      <<"f", "r", "o", "n", "t", "e", "n", "d">>,
      <<"d", "a", "t", "a", " ", "s", "c", "i", "e", "n", "t", "i", "s", "t">>,
      <<"d", "e", "v", "o", "p", "s">>,
      <<"q", "a">>,
      <<"t", "e", "s", "t">>,
      <<"a", "n", "a", "l", "y", "s", "t">>,
      <<"a", "r", "c", "h", "i", "t", "e", "c", "t">>,
      <<"s", "p", "e", "c", "i", "a", "l", "i", "s", "t">>,
      <<"c", "o", "n", "s", "u", "l", "t", "a", "n", "t">>,
      <<"m", "a", "n", "a", "g", "e", "r">>,
      <<"t", "e", "c", "h">>,
      <<"i", "t">>,
      <<"i", "n", "f", "o", "r", "m", "a", "t", "i", "o", "n">>,
      <<"s", "y", "s", "t", "e", "m">>,
      <<"a", "p", "p", "l", "i", "c", "a", "t", "i", "o", "n">>,
      <<"c", "l", "o", "u", "d">>,
      <<"s", "e", "c", "u", "r", "i", "t", "y">>,
      <<"n", "e", "t", "w", "o", "r", "k">>,
      <<"s", "u", "p", "p", "o", "r", "t">>,
      <<"a", "d", "m", "i", "n", "i", "s", "t", "r", "a", "t", "o", "r">>,
      <<"l", "e", "a", "d">>,
      <<"h", "e", "a", "d">>,
      <<"c", "h", "i", "e", "f">>,
      <<"d", "i", "r", "e", "c", "t", "o", "r">>,
      <<"c", "o", "o", "r", "d", "i", "n", "a", "t", "o", "r">>,
      <<"d", "e", "s", "i", "g", "n", "e", "r">>,
      <<"m", "a", "r", "k", "e", "t", "i", "n", "g">>,
      <<"d", "i", "g", "i", "t", "a", "l">>,
      <<"c", "o", "n", "t", "e", "n", "t">>,
      <<"s", "o", "c", "i", "a", "l", " ", "m", "e", "d", "i", "a">>,
      <<"d", "a", "t", "a">> }

\* The second, literal list of the tech-job test.
tech_words ==
    { <<"t", "e", "c", "h">>,
      <<"i", "t">>,
      <<"s", "o", "f", "t", "w", "a", "r", "e">>,
      <<"d", "a", "t", "a">>,
      <<"d", "i", "g", "i", "t", "a", "l">>,
      <<"m", "a", "r", "k", "e", "t", "i", "n", "g">>,
      <<"s", "o", "c", "i", "a", "l">> }

education_keywords ==
    { <<"b", "a", "c", "h", "e", "l", "o", "r">>,
      <<"m", "a", "s", "t", "e", "r">>,
      <<"p", "h", "d">>,
      <<"d", "e", "g", "r", "e", "e">>,
      <<"d", "i", "p", "l", "o", "m", "a">>,
      <<"c", "e", "r", "t", "i", "f", "i", "c", "a", "t", "i", "o", "n">> }

S_experience == <<"e", "x", "p", "e", "r", "i", "e", "n", "c", "e">>
S_years == <<"y", "e", "a", "r", "s">>
S_minimum == <<"m", "i", "n", "i", "m", "u", "m">>
S_at_least == <<"a", "t", " ", "l", "e", "a", "s", "t">>
S_more_than == <<"m", "o", "r", "e", " ", "t", "h", "a", "n">>

\* The words that may precede the number of years.
minimum_cues == {S_minimum, S_at_least, S_more_than}

\* The first index i > 0 of words with words[i].isdigit() and words[i-1] a
\* cue (0-based i in the code, 1-based here), or 0 when there is none.
FirstYearsIndex(words) ==
    LET hits == {i \in 2..Len(words) :
                    IsDigit(words[i]) /\ words[i - 1] \in minimum_cues}
    IN  IF hits = {} THEN 0 ELSE CHOOSE i \in hits : \A j \in hits : i <= j

\* _parse_experience: the loop over the lines, from the experience so far.
RECURSIVE ParseExperienceLines(_, _)
ParseExperienceLines(lines, experience) ==
    IF Len(lines) = 0 THEN experience
    ELSE LET line == Head(lines)
             line_lower == Lower(line)
             words == SplitWords(line_lower)
             k == FirstYearsIndex(words)
             next ==
                IF Contains(line_lower, S_experience) \/ Contains(line_lower, S_years)
                THEN [minimum_years |-> IF k = 0 THEN experience.minimum_years
                                        ELSE ToInt(words[k]),
                      description |-> Append(experience.description, Strip(line))]
                ELSE experience
         IN  ParseExperienceLines(Tail(lines), next)

\* DataProcessor._parse_experience
parse_experience(qualifications) ==
    ParseExperienceLines(SplitOn(qualifications, "\n"),
                         [minimum_years |-> 0, description |-> <<>>])

\* DataProcessor._parse_qualifications
RECURSIVE ParseQualificationLines(_)
ParseQualificationLines(lines) ==
    IF Len(lines) = 0 THEN <<>>
    ELSE LET line == Head(lines)
             hit == \E keyword \in education_keywords : Contains(Lower(line), keyword)
         IN  (IF hit THEN <<Strip(line)>> ELSE <<>>)
                \o ParseQualificationLines(Tail(lines))

parse_qualifications(qualifications) ==
    ParseQualificationLines(SplitOn(qualifications, "\n"))

\* A job that _pre_filter_jobs has not annotated has no preliminary_score
\* key; a score is the fraction n / d in lowest terms.
NoScore == [n |-> -1, d |-> 1]

\* skills_text -> skills: split on commas, strip, strip quotes, brackets and
\* blanks, strip again; an empty text gives the empty list.
ParseSkills(skills_text) ==
    IF Len(skills_text) = 0 THEN <<>>
    ELSE LET parts == SplitOn(skills_text, ",")
         IN  AsList([i \in 1..Len(parts) |->
                        Strip(StripChars(Strip(parts[i]), QuoteBracketSpace))])

\* One row of the source, as csv.DictReader yields it: the recognised
\* columns as strings; short is a row with fewer fields than the header, for
\* which row.get(...) is None and .strip() raises.
RowRaises(row) == row.short

\* The job object built from a row whose title is not blank.
JobOfRow(row) ==
    [title |-> Strip(row.title),
     role |-> Strip(row.role),
     company |-> row.company,
     requirements |->
        [skills |-> ParseSkills(Strip(row.skills)),
         experience |-> parse_experience(Strip(row.qualifications)),
         education |-> parse_qualifications(Strip(row.qualifications))],
     preliminary_score |-> NoScore]

\* The rows reader yields with index i < 100.
RowLimit == 100

\* A loop that appends the rows with a blank title too.
LoadRowsKeepingBlank(rows, i) ==
    LET read == SubSeq(rows, i, IF Len(rows) < RowLimit THEN Len(rows) ELSE RowLimit)
        kept == SelectSeq(read, LAMBDA row : ~RowRaises(row))
    IN  AsList([k \in 1..Len(kept) |-> JobOfRow(kept[k])])

\* A loop that stops after RowLimit appended rows.
LoadRowsAccepted(rows, i) ==
    LET accepted == SelectSeq(SubSeq(rows, i, Len(rows)),
                              LAMBDA row : ~RowRaises(row) /\ Len(Strip(row.title)) > 0)
    IN  AsList([k \in 1..(IF Len(accepted) < RowLimit THEN Len(accepted) ELSE RowLimit)
                  |-> JobOfRow(accepted[k])])

\* The loop over the rows from the i-th on, up to the RowLimit-th: a blank
\* title is skipped, a row that raises is skipped, any other row is appended.
LoadRows(rows, i) ==
    LET read == SubSeq(rows, i, IF Len(rows) < RowLimit THEN Len(rows) ELSE RowLimit)
        kept == SelectSeq(read, LAMBDA row :
                    ~(RowRaises(row) \/ Len(Strip(row.title)) = 0))
    IN  AsList([k \in 1..Len(kept) |-> JobOfRow(kept[k])])

\* A loader that returns the rows read so far when csv rejects the file.
LoadIgnoringCsvError(src) ==
    IF ~src.readable THEN <<>> ELSE LoadRows(src.rows, 1)

\* DataProcessor._load_jobs_from_csv on a source: a source that cannot be
\* opened, or that csv rejects, gives the empty list.
load_jobs_from_csv(src) ==
    IF ~src.readable \/ src.csv_error THEN <<>> ELSE LoadRows(src.rows, 1)

(***************************************************************************)
(* Scores: Python floats that are ratios of small integers, kept as        *)
(* fractions in lowest terms so that equal scores are equal values.        *)
(***************************************************************************)

RECURSIVE GCD(_, _)
GCD(a, b) == IF b = 0 THEN a ELSE GCD(b, a % b)

Frac(n, d) == LET g == GCD(n, d) IN [n |-> n \div g, d |-> d \div g]

FracLess(a, b) == a.n * b.d < b.n * a.d

FracAdd(a, k) == Frac(a.n + k * a.d, a.d)

FracMin(a, b) == IF FracLess(b, a) THEN b ELSE a

FracMax(a, b) == IF FracLess(a, b) THEN b ELSE a

(***************************************************************************)
(* The relevance filter: DataProcessor._pre_filter_jobs                    *)
(***************************************************************************)

\* The cap on the filter's output: filtered_jobs[:50].
TopMatches == 50

\* A job with no skill overlap is kept when it has at most this many skills.
FewSkills == 5

\* Neutral score of a job without required skills.
NeutralScore == 50

\* {skill.lower().strip() for skill in candidate_data.get('skills', [])}
CandidateSkillSet(candidate_data) ==
    {Strip(Lower(s)) : s \in Range(candidate_data.skills)}

\* {skill.lower().strip().strip('"[]') for skill in skills_list}, with
\* job.get('requirements', {}) for a record without requirements.
JobSkillSet(job) ==
    IF "requirements" \notin DOMAIN job THEN {}
    ELSE {StripChars(Strip(Lower(s)), QuoteBracket) : s \in Range(job.requirements.skills)}

\* A gate that lets every job through.
EveryJobIsTech(job) == TRUE

\* The tech-job test on the lower-cased title and role.
is_tech_job(job) ==
    LET job_title_lower == Lower(job.title)
        role_lower == Lower(job.role)
    IN  \/ \E keyword \in tech_keywords : Contains(job_title_lower, keyword)
        \/ \E keyword \in tech_keywords : Contains(role_lower, keyword)
        \/ \E tech_word \in tech_words : Contains(job_title_lower, tech_word)
        \/ \E tech_word \in tech_words : Contains(role_lower, tech_word)

\* An iteration that drops every job with required skills none of which
\* the candidate has.
FilterJobOverlapOnly(job, candidate_skills) ==
    LET job_skills == JobSkillSet(job)
        common_skills == candidate_skills \cap job_skills
    IN  IF ~is_tech_job(job) THEN [keep |-> FALSE, score |-> NoScore]
        ELSE IF job_skills # {}
        THEN IF common_skills # {}
             THEN [keep |-> TRUE,
                   score |-> Frac(100 * Cardinality(common_skills),
                                  Cardinality(job_skills))]
             ELSE [keep |-> FALSE, score |-> NoScore]
        ELSE [keep |-> TRUE, score |-> Frac(NeutralScore, 1)]

\* One iteration of the loop over the jobs: whether the job is appended to
\* filtered_jobs, and the preliminary_score written into the job record.
FilterJob(job, candidate_skills) ==
    LET job_skills == JobSkillSet(job)
        common_skills == candidate_skills \cap job_skills
    IN  IF ~is_tech_job(job) THEN [keep |-> FALSE, score |-> NoScore]
        ELSE IF job_skills # {}
        THEN IF common_skills # {} \/ Cardinality(job_skills) <= FewSkills
             THEN [keep |-> TRUE,
                   score |-> Frac(100 * Cardinality(common_skills),
                                  Cardinality(job_skills))]
             ELSE [keep |-> FALSE, score |-> NoScore]
        ELSE [keep |-> TRUE, score |-> Frac(NeutralScore, 1)]

\* The loop over the jobs: the verdict of each iteration.
FilterJobs(jobs, candidate_skills) ==
    AsList([i \in 1..Len(jobs) |-> FilterJob(jobs[i], candidate_skills)])

\* A filter that keeps the score a record already carries (setdefault).
AnnotateJobKeepFirst(job, verdict) ==
    IF verdict.keep /\ job.preliminary_score = NoScore
    THEN [job EXCEPT !.preliminary_score = verdict.score]
    ELSE job

\* The job record after its iteration: job['preliminary_score'] = ... is an
\* assignment into the record held by the catalog.
AnnotateJob(job, verdict) ==
    IF verdict.keep THEN [job EXCEPT !.preliminary_score = verdict.score] ELSE job

\* The catalog after the loop.
AnnotateJobs(jobs, verdicts) ==
    AsList([i \in 1..Len(jobs) |-> AnnotateJob(jobs[i], verdicts[i])])

\* filtered_jobs after the loop: references to the kept records, as indexes
\* into the catalog, in catalog order.
RECURSIVE KeptRefs(_, _)
KeptRefs(verdicts, i) ==
    IF i > Len(verdicts) THEN <<>>
    ELSE (IF verdicts[i].keep THEN <<i>> ELSE <<>>) \o KeptRefs(verdicts, i + 1)

\* The scores of the records the references point to.
ScoreOf(jobs, r) == jobs[r].preliminary_score

\* The first of the positions at in a list of length n, n + 1 when there
\* is none.
FirstPosition(at, n) ==
    IF at = {} THEN n + 1 ELSE CHOOSE i \in at : \A j \in at : i <= j

\* An insertion that puts r before the entries of equal score.
InsertRefBeforeEqual(q, r, jobs) ==
    LET at == {i \in 1..Len(q) : ~FracLess(ScoreOf(jobs, r), ScoreOf(jobs, q[i]))}
        p == FirstPosition(at, Len(q))
    IN  SubSeq(q, 1, p - 1) \o <<r>> \o SubSeq(q, p, Len(q))

\* Insert reference r into the sorted sequence q, before the first entry
\* whose score is smaller and so after every entry whose score is not
\* smaller (a stable sort, reverse=True).
InsertRef(q, r, jobs) ==
    LET at == {i \in 1..Len(q) : FracLess(ScoreOf(jobs, q[i]), ScoreOf(jobs, r))}
        p == FirstPosition(at, Len(q))
    IN  SubSeq(q, 1, p - 1) \o <<r>> \o SubSeq(q, p, Len(q))

\* filtered_jobs.sort(key=lambda x: x['preliminary_score'], reverse=True):
\* the key is read from the records as they are when the sort runs. The
\* entries are inserted one after the other, each into the sorted list of
\* the entries before it.
RECURSIVE SortRefs(_, _)
SortRefs(refs, jobs) ==
    IF Len(refs) = 0 THEN <<>>
    ELSE CHOOSE s \in {InsertRef(sorted, refs[Len(refs)], jobs) :
                          sorted \in {SortRefs(SubSeq(refs, 1, Len(refs) - 1),
                                               jobs)}} : TRUE

\* filtered_jobs[:50]
TakeTop(refs) == SubSeq(refs, 1, IF Len(refs) < TopMatches THEN Len(refs) ELSE TopMatches)

\* _pre_filter_jobs run to its end on its own: the catalog it leaves and
\* the references it returns.
pre_filter_jobs(jobs, candidate_data) ==
    LET candidate_skills == CandidateSkillSet(candidate_data)
        verdicts == FilterJobs(jobs, candidate_skills)
        after == AnnotateJobs(jobs, verdicts)
    IN  [jobs |-> after,
         result |-> TakeTop(SortRefs(KeptRefs(verdicts, 1), after))]

(***************************************************************************)
(* The scorer: JobMatcher.calculate_match_score_sync                       *)
(***************************************************************************)

\* The experience bonus and penalty, and the cap of a score.
ExperienceDelta == 10
MaxScore == 100

\* The fixed result of the except branch.
FallbackScore == 50

\* The skill percentage of a job without required skills (0.5 * 100).
NeutralSkillMatch == 50

FallbackResult ==
    [total_score |-> Frac(FallbackScore, 1),
     skill_match |-> Frac(FallbackScore, 1),
     experience_match |-> Frac(FallbackScore, 1),
     education_match |-> Frac(FallbackScore, 1),
     ai_analysis |-> [match_score |-> Frac(FallbackScore, 1),
                      summary |-> "Basic skill matching analysis",
                      n_matching |-> 0, n_required |-> 0,
                      experience_note |-> "none",
                      matching_skills |-> {}, missing_skills |-> {}]]

\* isinstance(job_requirements, dict): the records the loader builds are
\* mappings; a value that is none carries is_dict = FALSE.
RequirementsIsDict(job_requirements) ==
    IF "is_dict" \in DOMAIN job_requirements THEN job_requirements.is_dict ELSE TRUE

\* A list of n items where a mapping is expected ([] for n = 0).
ListOf(n) == [is_list |-> TRUE, length |-> n]

\* The requirements the scorer works on: a value that is no mapping is
\* replaced by {'skills': [], 'experience': [], 'education': []}.
StructuredRequirements(job_requirements) ==
    IF RequirementsIsDict(job_requirements) THEN job_requirements
    ELSE [skills |-> <<>>, experience |-> ListOf(0), education |-> <<>>]

\* required_skills: job_requirements.get('skills', []), a string split on
\* commas and stripped.
RequiredSkills(requirements) ==
    IF "skills" \notin DOMAIN requirements THEN <<>>
    ELSE IF "skills_is_str" \in DOMAIN requirements
    THEN LET parts == SplitOn(requirements.skills, ",")
         IN  AsList([i \in 1..Len(parts) |-> Strip(parts[i])])
    ELSE requirements.skills

\* exp_requirements: job_requirements.get('experience', {})
ExperienceRequirements(requirements) ==
    IF "experience" \in DOMAIN requirements THEN requirements.experience ELSE <<>>

ExperienceIsList(exp_requirements) == "is_list" \in DOMAIN exp_requirements

\* The truth value of exp_requirements: a mapping or a list that is not
\* empty. The mapping _parse_experience builds always has its two keys.
ExperienceGiven(exp_requirements) ==
    IF ExperienceIsList(exp_requirements) THEN exp_requirements.length > 0
    ELSE DOMAIN exp_requirements # {}

\* exp_requirements.get('minimum_years', 0)
MinimumYears(exp_requirements) ==
    IF "minimum_years" \in DOMAIN exp_requirements
    THEN exp_requirements.minimum_years ELSE 0

\* An experience entry of the candidate from which the period can be read:
\* a mapping whose period, when present, is a string.
EntryReadable(exp) ==
    /\ ("is_dict" \in DOMAIN exp => exp.is_dict)
    /\ "period_is_none" \notin DOMAIN exp

\* exp.get('period', '')
PeriodOf(exp) == IF "period" \in DOMAIN exp THEN exp.period ELSE <<>>

\* sum(len(exp.get('period', '').split('-')) for exp in candidate_data['experience'])
RECURSIVE CandidateYears(_)
CandidateYears(experience) ==
    IF Len(experience) = 0 THEN 0
    ELSE Len(SplitOn(PeriodOf(Head(experience)), "-"))
            + CandidateYears(Tail(experience))

\* A candidate record the scorer and the filter can read: a mapping whose
\* skills are a list of strings.
CandidateReadable(candidate_data) == candidate_data.is_dict /\ candidate_data.skills_ok

\* An adjustment made whenever the job gives experience requirements.
AdjustsWithoutExperience(candidate_data, requirements) ==
    ExperienceGiven(ExperienceRequirements(requirements))

\* Whether the experience adjustment is made: exp_requirements and
\* candidate_data.get('experience') are both true.
Adjusts(candidate_data, requirements) ==
    /\ ExperienceGiven(ExperienceRequirements(requirements))
    /\ Len(candidate_data.experience) > 0

\* The exception the try branch raises, "" when it raises none:
\* candidate_data.get on a value that is no mapping, the iteration of
\* skills that are no list, exp_requirements.get on a list, exp.get on an
\* entry that is no mapping, .split on a period that is None.
ScoreException(candidate_data, job_requirements) ==
    LET requirements == StructuredRequirements(job_requirements)
    IN  IF ~candidate_data.is_dict THEN "AttributeError"
        ELSE IF ~candidate_data.skills_ok THEN "TypeError"
        ELSE IF ~Adjusts(candidate_data, requirements) THEN ""
        ELSE IF ExperienceIsList(ExperienceRequirements(requirements))
        THEN "AttributeError"
        ELSE IF \E i \in 1..Len(candidate_data.experience) :
                    ~EntryReadable(candidate_data.experience[i])
        THEN "AttributeError"
        ELSE ""

\* A list of missing skills that repeats the matching ones.
MissingSkillsAll(required_skills_lower, candidate_skills_lower) ==
    required_skills_lower

\* missing_skills = required_skills_lower - candidate_skills_lower
MissingSkills(required_skills_lower, candidate_skills_lower) ==
    required_skills_lower \ candidate_skills_lower

\* A skill score that is 0 for a job without required skills.
SkillMatchScoreZeroWhenEmpty(matching_skills, required_skills_lower) ==
    IF required_skills_lower # {}
    THEN Frac(100 * Cardinality(matching_skills), Cardinality(required_skills_lower))
    ELSE Frac(0, 1)

\* skill_match_score = len(matching_skills) / len(required_skills_lower),
\* 0.5 for an empty set, times 100.
SkillMatchScore(matching_skills, required_skills_lower) ==
    IF required_skills_lower # {}
    THEN Frac(100 * Cardinality(matching_skills), Cardinality(required_skills_lower))
    ELSE Frac(NeutralSkillMatch, 1)

\* The adjustment without its cap and its floor.
AdjustUnclamped(match_score, candidate_years, min_years) ==
    IF candidate_years >= min_years
    THEN FracAdd(match_score, ExperienceDelta)
    ELSE FracAdd(match_score, -ExperienceDelta)

\* The experience adjustment of the match score: min(100, match_score + 10)
\* when the candidate's years reach the minimum, max(0, match_score - 10)
\* otherwise.
AdjustForExperience(match_score, candidate_years, min_years) ==
    IF candidate_years >= min_years
    THEN FracMin(Frac(MaxScore, 1), FracAdd(match_score, ExperienceDelta))
    ELSE FracMax(Frac(0, 1), FracAdd(match_score, -ExperienceDelta))

\* The try branch, when it raises nothing.
ScoreBody(candidate_data, job_requirements) ==
    LET requirements == StructuredRequirements(job_requirements)
        required_skills == RequiredSkills(requirements)
        required_skills_lower == {Lower(s) : s \in Range(required_skills)}
        candidate_skills_lower == {Lower(s) : s \in Range(candidate_data.skills)}
        matching_skills == required_skills_lower \cap candidate_skills_lower
        missing_skills == MissingSkills(required_skills_lower, candidate_skills_lower)
        skill_match_score == SkillMatchScore(matching_skills, required_skills_lower)
        exp_requirements == ExperienceRequirements(requirements)
        adjust == Adjusts(candidate_data, requirements)
        min_years == MinimumYears(exp_requirements)
        candidate_years == CandidateYears(candidate_data.experience)
        match_score ==
            IF ~adjust THEN skill_match_score
            ELSE AdjustForExperience(skill_match_score, candidate_years, min_years)
    IN  [total_score |-> match_score,
         skill_match |-> skill_match_score,
         experience_match |-> match_score,
         education_match |-> match_score,
         ai_analysis |-> [match_score |-> match_score,
                          summary |-> "Candidate matches n out of m required skills",
                          n_matching |-> Cardinality(matching_skills),
                          n_required |-> Cardinality(required_skills_lower),
                          experience_note |->
                              IF ~adjust THEN "none"
                              ELSE IF candidate_years >= min_years THEN "strength"
                              ELSE "gap",
                          matching_skills |-> matching_skills,
                          missing_skills |-> missing_skills]]

\* A handler that catches AttributeError only.
ScorerExceptAttributeOnly(exception, body) ==
    [escaped |-> exception \notin {"", "AttributeError"},
     result |-> IF exception # "" THEN FallbackResult ELSE body]

\* except Exception: whatever the try branch raises, the fallback result is
\* returned.
ScorerExcept(exception, body) ==
    [escaped |-> FALSE,
     result |-> IF exception # "" THEN FallbackResult ELSE body]

\* calculate_match_score_sync
calculate_match_score_sync(candidate_data, job_requirements) ==
    ScorerExcept(ScoreException(candidate_data, job_requirements),
                 ScoreBody(candidate_data, job_requirements)).result

\* list(missing_skills)[:3] keeps this many skills.
TopRecommendations == 3

\* A list of recommendations that is not cut: every missing skill.
ListedAll(missing_skills) == {missing_skills}

\* The sets list(missing_skills)[:3] can hold: the order in which a set is
\* listed is not fixed, so any TopRecommendations of the missing skills (all
\* of them when there are fewer).
ListedFirst(missing_skills) ==
    {listed \in SUBSET missing_skills :
        Cardinality(listed) = IF Cardinality(missing_skills) < TopRecommendations
                              THEN Cardinality(missing_skills)
                              ELSE TopRecommendations}

\* analysis['recommendations']: one "Consider learning X" line for each
\* listed skill, or the line "Strong match with required skills".
Recommendations(missing_skills, listed) ==
    IF missing_skills # {} THEN [kind |-> "learn", skills |-> listed]
    ELSE [kind |-> "strong", skills |-> {}]

(***************************************************************************)
(* Python integer arithmetic and slicing                                   *)
(***************************************************************************)

\* a // b for b # 0 (floor division)
FloorDiv(a, b) == IF b > 0 THEN a \div b ELSE (-a) \div (-b)

\* The index a slice bound resolves to in a list of length n.
SliceIndex(k, n) ==
    IF k < 0 THEN (IF k + n < 0 THEN 0 ELSE k + n)
    ELSE IF k > n THEN n ELSE k

\* q[start:end]
Slice(q, start, end) ==
    LET lo == SliceIndex(start, Len(q))
        hi == SliceIndex(end, Len(q))
    IN  IF lo >= hi THEN <<>> ELSE SubSeq(q, lo + 1, hi)

(***************************************************************************)
(* The catalog cache: DataProcessor._get_cached_jobs                       *)
(***************************************************************************)

\* self._cache_duration
cache_duration == 300

\* A test that already reloads when exactly cache_duration seconds have passed.
CacheExpiredAtDuration(is_none, last_time, current_time) ==
    is_none \/ current_time - last_time >= cache_duration

\* The test that decides a reload.
CacheExpired(is_none, last_time, current_time) ==
    is_none \/ current_time - last_time > cache_duration

(***************************************************************************)
(* The match operation: DataProcessor.match_candidate_with_jobs            *)
(***************************************************************************)

\* The result of the outer except branch.
ErrorResult(page, per_page) ==
    [matches |-> <<>>,
     pagination |-> [total |-> 0, page |-> page, per_page |-> per_page,
                     total_pages |-> 0]]

\* A match object that reports the skill percentage as experience_match.
MatchObjectSkillAsExperience(job, candidate_data) ==
    LET match_score == calculate_match_score_sync(candidate_data, job.requirements)
    IN  [job |-> [title |-> job.title, company |-> job.company, role |-> job.role,
                  requirements |-> job.requirements],
         match_score |-> match_score.total_score,
         skill_match |-> match_score.skill_match,
         experience_match |-> match_score.skill_match,
         education_match |-> match_score.education_match,
         ai_analysis |-> match_score.ai_analysis]

\* The match object of one job of the page.
MatchObject(job, candidate_data) ==
    LET match_score == calculate_match_score_sync(candidate_data, job.requirements)
    IN  [job |-> [title |-> job.title, company |-> job.company, role |-> job.role,
                  requirements |-> job.requirements],
         match_score |-> match_score.total_score,
         skill_match |-> match_score.skill_match,
         experience_match |-> match_score.experience_match,
         education_match |-> match_score.education_match,
         ai_analysis |-> match_score.ai_analysis]

\* A total_pages that rounds down.
TotalPagesRoundedDown(total_jobs, per_page) == FloorDiv(total_jobs, per_page)

\* total_pages = (total_jobs + per_page - 1) // per_page
TotalPages(total_jobs, per_page) == FloorDiv(total_jobs + per_page - 1, per_page)

\* page_jobs = filtered_jobs[start_idx:end_idx]
PageJobs(filtered_jobs, page, per_page) ==
    Slice(filtered_jobs, (page - 1) * per_page, (page - 1) * per_page + per_page)

\* A loop that hands every job the filter returned to the scorer.
ScoredAllFiltered(filtered_jobs, page, per_page) == filtered_jobs

\* The jobs the loop hands to the scorer, in the order of the calls: those
\* of page_jobs; none when the division by per_page = 0 has raised before
\* the loop.
ScoredJobs(filtered_jobs, page, per_page) ==
    IF per_page = 0 THEN <<>> ELSE PageJobs(filtered_jobs, page, per_page)

\* Whether the loop body raises on a job: job['requirements'] on a record
\* without that entry is a KeyError.
JobRaises(job) == "requirements" \notin DOMAIN job

\* A loop whose first failing job ends it (no try around the body).
ProcessedUntilRaise(jobs, page_jobs) ==
    LET failing == {k \in 1..Len(page_jobs) : JobRaises(jobs[page_jobs[k]])}
    IN  SubSeq(page_jobs, 1, FirstPosition(failing, Len(page_jobs)) - 1)

\* The jobs of the page whose iteration ends with matches.append: except
\* Exception ... continue leaves out a job whose iteration raises.
Processed(jobs, page_jobs) ==
    SelectSeq(page_jobs, LAMBDA r : ~JobRaises(jobs[r]))

\* The statements after the filter: pagination, slicing, scoring, assembly.
\* filtered_jobs are references into jobs; per_page = 0 raises
\* ZeroDivisionError, which the outer except turns into ErrorResult.
Paginate(jobs, filtered_jobs, candidate_data, page, per_page) ==
    IF per_page = 0 THEN ErrorResult(page, per_page)
    ELSE LET page_jobs == Processed(jobs, ScoredJobs(filtered_jobs, page, per_page))
         IN  [matches |-> AsList([k \in 1..Len(page_jobs) |->
                                 MatchObject(jobs[page_jobs[k]], candidate_data)]),
              pagination |-> [total |-> Len(filtered_jobs), page |-> page,
                              per_page |-> per_page,
                              total_pages |-> TotalPages(Len(filtered_jobs), per_page)]]

\* The try block of match_candidate_with_jobs from the filter on, on the
\* catalog the cache returned, run without interruption: the catalog it
\* leaves, the filter's output with the scores its records carry, the jobs
\* scored, the exception it raises ("" for none) and
\* the value it returns. A candidate whose skills cannot be iterated raises
\* in the filter before any job is touched.
MatchOnCatalog(jobs, candidate_data, page, per_page) ==
    IF ~CandidateReadable(candidate_data)
    THEN [jobs |-> jobs, filtered |-> <<>>, scores |-> <<>>, scored_jobs |-> <<>>,
          exception |-> IF candidate_data.is_dict THEN "TypeError" ELSE "AttributeError",
          result |-> ErrorResult(page, per_page)]
    ELSE LET f == pre_filter_jobs(jobs, candidate_data)
         IN  [jobs |-> f.jobs, filtered |-> f.result,
              scores |-> AsList([k \in 1..Len(f.result) |->
                                    f.jobs[f.result[k]].preliminary_score]),
              scored_jobs |-> Processed(f.jobs, ScoredJobs(f.result, page, per_page)),
              exception |-> IF per_page = 0 THEN "ZeroDivisionError" ELSE "",
              result |-> Paginate(f.jobs, f.result, candidate_data, page, per_page)]

\* A handler that catches the division error only.
OuterExceptDivisionOnly(m, page, per_page) ==
    [escaped |-> m.exception \notin {"", "ZeroDivisionError"},
     result |-> IF m.exception # "" THEN ErrorResult(page, per_page) ELSE m.result]

\* except Exception: the outer handler returns the empty result; no
\* exception leaves the operation.
OuterExcept(m, page, per_page) ==
    [escaped |-> FALSE,
     result |-> IF m.exception # "" THEN ErrorResult(page, per_page) ELSE m.result]

(***************************************************************************)
(* The data of the model: source rows, sources and candidates              *)
(***************************************************************************)

RowDataEngineer ==
    [title |-> <<"D", "a", "t", "a", " ", "E", "n", "g", "i", "n", "e", "e", "r">>, role |-> <<"E", "n", "g", "i", "n", "e", "e", "r", "i", "n", "g">>, skills |-> <<"P", "y", "t", "h", "o", "n", ",", " ", "S", "Q", "L", ",", " ", "A", "W", "S">>,
     qualifications |-> <<"M", "i", "n", "i", "m", "u", "m", " ", "3", " ", "y", "e", "a", "r", "s", " ", "o", "f", " ", "e", "x", "p", "e", "r", "i", "e", "n", "c", "e">>,
     company |-> <<"A", "c", "m", "e">>, short |-> FALSE]

RowFarmLaborer ==
    [title |-> <<"F", "a", "r", "m", " ", "L", "a", "b", "o", "r", "e", "r">>, role |-> <<"H", "a", "r", "v", "e", "s", "t">>, skills |-> <<"P", "y", "t", "h", "o", "n">>,
     qualifications |-> <<>>,
     company |-> <<"A", "c", "m", "e">>, short |-> FALSE]

RowITSupport ==
    [title |-> <<" ", "I", "T", " ", "S", "u", "p", "p", "o", "r", "t", " ">>, role |-> <<"H", "e", "l", "p", "d", "e", "s", "k">>, skills |-> <<>>,
     qualifications |-> <<>>,
     company |-> <<"A", "c", "m", "e">>, short |-> FALSE]

RowWebDeveloper ==
    [title |-> <<"W", "e", "b", " ", "D", "e", "v", "e", "l", "o", "p", "e", "r">>, role |-> <<"F", "r", "o", "n", "t", "e", "n", "d">>, skills |-> <<"g", "o", ",", " ", "r", "u", "s", "t", ",", " ", "j", "a", "v", "a", ",", " ", "c", ",", " ", "p", "e", "r", "l", ",", " ", "r", "u", "b", "y">>,
     qualifications |-> <<>>,
     company |-> <<"A", "c", "m", "e">>, short |-> FALSE]

RowCloudArchitect ==
    [title |-> <<"C", "l", "o", "u", "d", " ", "A", "r", "c", "h", "i", "t", "e", "c", "t">>, role |-> <<"P", "l", "a", "t", "f", "o", "r", "m">>, skills |-> <<"\"", "A", "W", "S", "\"", ",", " ", "[", "d", "o", "c", "k", "e", "r", "]">>,
     qualifications |-> <<"B", "a", "c", "h", "e", "l", "o", "r", " ", "d", "e", "g", "r", "e", "e">>,
     company |-> <<"A", "c", "m", "e">>, short |-> FALSE]

RowAnalyst ==
    [title |-> <<"A", "n", "a", "l", "y", "s", "t">>, role |-> <<"F", "i", "n", "a", "n", "c", "e">>, skills |-> <<"S", "Q", "L", ",", " ", "E", "x", "c", "e", "l">>,
     qualifications |-> <<>>,
     company |-> <<"A", "c", "m", "e">>, short |-> FALSE]

RowBlankTitle ==
    [title |-> <<" ", " ">>, role |-> <<"E", "n", "g", "i", "n", "e", "e", "r", "i", "n", "g">>, skills |-> <<"P", "y", "t", "h", "o", "n">>,
     qualifications |-> <<>>,
     company |-> <<"A", "c", "m", "e">>, short |-> FALSE]

RowGardener ==
    [title |-> <<"G", "a", "r", "d", "e", "n", "e", "r">>, role |-> <<"D", "a", "t", "a", " ", "e", "n", "t", "r", "y">>, skills |-> <<"P", "y", "t", "h", "o", "n">>,
     qualifications |-> <<>>,
     company |-> <<"A", "c", "m", "e">>, short |-> FALSE]

RowShort ==
    [title |-> <<"Q", "A", " ", "T", "e", "s", "t", "e", "r">>, role |-> <<>>, skills |-> <<>>,
     qualifications |-> <<>>,
     company |-> <<"A", "c", "m", "e">>, short |-> TRUE]

\* A source is the file at csv_file_path: whether it can be opened, whether
\* csv rejects it, and the rows the reader yields.
SourceFile(rows) == [readable |-> TRUE, csv_error |-> FALSE, rows |-> rows]

SourceMissing == [readable |-> FALSE, csv_error |-> FALSE, rows |-> <<>>]

SourceCsvError == [readable |-> TRUE, csv_error |-> TRUE, rows |-> <<RowDataEngineer>>]

SourceA ==
    SourceFile(<<RowDataEngineer, RowFarmLaborer, RowBlankTitle, RowITSupport,
                 RowWebDeveloper>>)

SourceB ==
    SourceFile(<<RowAnalyst, RowShort, RowCloudArchitect, RowDataEngineer>>)

SourceC ==
    SourceFile(<<RowGardener, RowFarmLaborer, RowWebDeveloper, RowCloudArchitect>>)

Sources == {SourceMissing, SourceCsvError, SourceA, SourceB}

\* The sources of the sequential requests.
RequestSources == Sources \cup {SourceC}

CandPython ==
    [is_dict |-> TRUE, skills_ok |-> TRUE,
     skills |-> <<<<"P", "y", "t", "h", "o", "n">>, <<" ", "s", "q", "l", " ">>>>,
     experience |-> <<>>]

CandAws ==
    [is_dict |-> TRUE, skills_ok |-> TRUE,
     skills |-> <<<<"A", "W", "S">>, <<"D", "o", "c", "k", "e", "r">>, <<"G", "o">>>>,
     experience |-> <<[period |-> <<"2", "0", "1", "9", "-", "2", "0", "2", "1">>]>>]

\* candidate_data = None
CandNone == [is_dict |-> FALSE, skills_ok |-> FALSE, skills |-> <<>>, experience |-> <<>>]

\* candidate_data = {'skills': None}
CandBadSkills == [is_dict |-> TRUE, skills_ok |-> FALSE, skills |-> <<>>, experience |-> <<>>]

Candidates == {CandPython, CandAws, CandNone, CandBadSkills}

(***************************************************************************)
(* State                                                                   *)
(***************************************************************************)

VARIABLES
    now,              \* time.time()
    source,           \* the file at csv_file_path
    cached_is_none,   \* self._cached_jobs is None
    cached_jobs,      \* self._cached_jobs, when it is a list
    last_cache_time,  \* self._last_cache_time
    loaded,           \* history: the list the last load returned, as returned
    load_status,      \* history: "none", "ok" or "failed", of the last load
    access,           \* history: the last catalog access
    call,             \* history: the last match_candidate_with_jobs call
    th,               \* the request threads: where each is, and its locals
    writer,           \* history: the thread that assigned self._cached_jobs last
    scored,           \* history: the last calculate_match_score_sync call
    narrative,        \* history: the last generate_global_matches call, and
                      \* the number of model.generate_content invocations
    postings          \* the job_postings table (id and status of each row),
                      \* and history: the last job API request, its response
                      \* code and the table before it

vars == <<now, source, cached_is_none, cached_jobs, last_cache_time, loaded,
          load_status, access, call, th, writer, scored, narrative, postings>>

\* The clock when the DataProcessor is constructed.
StartTime == 1000

\* The page and per_page values of the requests: pages from 1, per_page
\* from -1 (the route passes on any integer of the query string).
MaxPage == 2
MaxPerPage == 2

PageValues == 1..MaxPage
PerPageValues == -1..MaxPerPage

\* The request threads (the server handles each request in a thread of its
\* own, all on the one DataProcessor).
NumThreads == 2

Threads == 1..NumThreads

\* A thread that runs no operation; its fields are the locals of
\* _get_cached_jobs (current_time, jobs), of match_candidate_with_jobs and
\* _pre_filter_jobs (candidate, page, per_page, i, filtered), and what the
\* thread's last operation found and returned.
IdleThread ==
    [pc |-> "idle", candidate |-> CandNone, page |-> 1, per_page |-> 1, i |-> 0,
     filtered |-> <<>>, result |-> ErrorResult(1, 1), current_time |-> 0,
     expired |-> FALSE, jobs |-> <<>>, returned |-> <<>>, from |-> 0]

\* No match object: the scorer was not called from the loop.
NoMatchObject == [assembled |-> FALSE]

\* No scorer call yet.
NoScoring ==
    [made |-> FALSE, candidate |-> CandNone, requirements |-> <<>>,
     exception |-> "", escaped |-> FALSE, result |-> FallbackResult,
     recommendations |-> [kind |-> "review", skills |-> {}],
     match_obj |-> NoMatchObject]

NoAccess == [made |-> FALSE, at |-> 0, reread |-> FALSE, returned |-> <<>>]

\* No generate_global_matches call yet, and no model.generate_content
\* invocation.
NoNarrative ==
    [made |-> FALSE,
     candidate |-> [skills |-> <<>>, experience |-> <<>>, education |-> <<>>],
     response |-> [raises |-> TRUE, text_is_str |-> FALSE, text |-> ""],
     calls |-> 0, raised |-> FALSE, matches |-> <<>>]

NoCall ==
    [made |-> FALSE, candidate |-> CandNone, page |-> 1, per_page |-> 1,
     use_ai |-> TRUE, reread |-> FALSE, filtered |-> <<>>, scores |-> <<>>, scored_jobs |-> <<>>,
     exception |-> "", escaped |-> FALSE, result |-> ErrorResult(1, 1)]

\* DataProcessor.__init__, with the source that is there.
InitOn(sources) ==
    /\ now = StartTime
    /\ source \in sources
    /\ cached_is_none = TRUE
    /\ cached_jobs = <<>>
    /\ last_cache_time = 0
    /\ loaded = <<>>
    /\ load_status = "none"
    /\ access = NoAccess
    /\ call = NoCall
    /\ th = [t \in Threads |-> IdleThread]
    /\ writer = 0
    /\ scored = NoScoring
    /\ narrative = NoNarrative
    /\ postings = [table |-> {}, before |-> {}, op |-> "", status |-> "",
                   response |-> 0]

Init == InitOn(RequestSources)

\* Whether loading the source fails (the except branches that return []).
LoadFails(src) == ~src.readable \/ src.csv_error

\* A cache that loads again while the cached list is empty.
GetCachedJobsRetryingEmpty(is_none, jobs, last_time, current_time, src) ==
    IF CacheExpired(is_none, last_time, current_time) \/ Len(jobs) = 0
    THEN [jobs |-> load_jobs_from_csv(src), last_cache_time |-> current_time,
          reread |-> TRUE]
    ELSE [jobs |-> jobs, last_cache_time |-> last_time, reread |-> FALSE]

\* _get_cached_jobs: the list it returns, the cache it leaves and whether it
\* read the source.
get_cached_jobs(is_none, jobs, last_time, current_time, src) ==
    IF CacheExpired(is_none, last_time, current_time)
    THEN [jobs |-> load_jobs_from_csv(src), last_cache_time |-> current_time,
          reread |-> TRUE]
    ELSE [jobs |-> jobs, last_cache_time |-> last_time, reread |-> FALSE]

\* The clock advances by d seconds, up to limit seconds after the start.
Tick(d, limit) ==
    /\ now + d <= StartTime + limit
    /\ now' = now + d
    /\ UNCHANGED <<source, cached_is_none, cached_jobs, last_cache_time, loaded,
                   load_status, access, call, th, writer, scored, narrative, postings>>

\* The file at csv_file_path is replaced.
ChangeSource(s) ==
    /\ s # source
    /\ source' = s
    /\ UNCHANGED <<now, cached_is_none, cached_jobs, last_cache_time, loaded,
                   load_status, access, call, th, writer, scored, narrative, postings>>

\* The history of a load.
RecordLoad(g) ==
    IF g.reread
    THEN /\ loaded' = g.jobs
         /\ load_status' = IF LoadFails(source) THEN "failed" ELSE "ok"
    ELSE UNCHANGED <<loaded, load_status>>

\* get_job_categories: a catalog access that only reads the records.
GetJobCategories ==
    \E g \in {get_cached_jobs(cached_is_none, cached_jobs, last_cache_time, now,
                               source)} :
        /\ cached_is_none' = FALSE
        /\ cached_jobs' = g.jobs
        /\ last_cache_time' = g.last_cache_time
        /\ RecordLoad(g)
        /\ access' = [made |-> TRUE, at |-> now, reread |-> g.reread,
                      returned |-> g.jobs]
        /\ UNCHANGED <<now, source, call, th, writer, scored, narrative, postings>>

\* The model.generate_content invocations of one match_candidate_with_jobs
\* call: its loop calls calculate_match_score_sync for each job of the page
\* and nothing else, and neither reads use_ai nor reaches the model.
AnalysisInvocationsPerJob(use_ai, scored_jobs) == Len(scored_jobs)

AnalysisInvocations(use_ai, scored_jobs) == 0

\* match_candidate_with_jobs(candidate_data, page, per_page, use_ai), run
\* without interruption. candidate_data = None raises before the cache is
\* read.
MatchRequest(candidate_data, page, per_page, use_ai) ==
    IF ~candidate_data.is_dict
    THEN \E m \in {MatchOnCatalog(<<>>, candidate_data, page, per_page)} :
         \E r \in {OuterExcept(m, page, per_page)} :
             /\ call' = [made |-> TRUE, candidate |-> candidate_data, page |-> page,
                         per_page |-> per_page, use_ai |-> use_ai,
                         reread |-> FALSE, filtered |-> <<>>,
                         scores |-> <<>>, scored_jobs |-> <<>>,
                         exception |-> m.exception, escaped |-> r.escaped,
                         result |-> r.result]
             /\ UNCHANGED <<now, source, cached_is_none, cached_jobs,
                            last_cache_time, loaded, load_status, access, th,
                            writer, scored, narrative, postings>>
    ELSE \E g \in {get_cached_jobs(cached_is_none, cached_jobs, last_cache_time,
                                  now, source)} :
         \E m \in {MatchOnCatalog(g.jobs, candidate_data, page, per_page)} :
         \E r \in {OuterExcept(m, page, per_page)} :
             /\ cached_is_none' = FALSE
             /\ cached_jobs' = m.jobs
             /\ last_cache_time' = g.last_cache_time
             /\ RecordLoad(g)
             /\ access' = [made |-> TRUE, at |-> now, reread |-> g.reread,
                      returned |-> g.jobs]
             /\ call' = [made |-> TRUE, candidate |-> candidate_data, page |-> page,
                         per_page |-> per_page, use_ai |-> use_ai,
                         reread |-> g.reread,
                         filtered |-> m.filtered, scores |-> m.scores,
                         scored_jobs |-> m.scored_jobs, exception |-> m.exception,
                         escaped |-> r.escaped, result |-> r.result]
             /\ narrative' = [narrative EXCEPT
                                 !.calls = @ + AnalysisInvocations(use_ai, m.scored_jobs)]
             /\ UNCHANGED <<now, source, th, writer, scored, postings>>

\* The call with use_ai left at its default (use_ai: bool = True).
Match(candidate_data, page, per_page) ==
    MatchRequest(candidate_data, page, per_page, TRUE)

\* Requests one after the other on one DataProcessor over one source; the
\* clock jumps past the cache duration, after which the source is read anew.
MaxJump == 301

Next ==
    \/ Tick(cache_duration + 1, MaxJump)
    \/ GetJobCategories
    \/ \E c \in Candidates, page \in PageValues, per_page \in PerPageValues :
          Match(c, page, per_page)

Spec == Init /\ [][Next]_vars

(***************************************************************************)
(* Properties of the sequential requests (Spec)                            *)
(***************************************************************************)

\* What the last call returns when it is made on the catalog as the last
\* load returned it, before any other call has run on it.
ResultOnFreshCatalog ==
    OuterExcept(MatchOnCatalog(loaded, call.candidate, call.page, call.per_page),
                call.page, call.per_page).result

\* C2: a call's result (pagination block, jobs, order, scores) is the one the
\* same call gives on the freshly loaded catalog, whatever calls for other
\* candidates and pages ran on the catalog since the load; so two calls with
\* the same candidate, page and per_page and no reload between them return
\* the same result.
C2_Determinism == call.made => call.result = ResultOnFreshCatalog

\* A call by CandPython on a catalog in which a record still carries the
\* score another candidate's call gave it, and this call dropped.
C2_Witness ==
    /\ call.made /\ call.candidate = CandPython /\ call.exception = ""
    /\ Len(call.result.matches) > 0
    /\ \E i \in 1..Len(cached_jobs) :
          /\ cached_jobs[i].preliminary_score # NoScore
          /\ ~FilterJob(loaded[i], CandidateSkillSet(CandPython)).keep

\* C3: the filter leaves the catalog and every record of it as the load
\* returned them (no field of a cached record added or modified).
C3_FilterLeavesCatalogUnchanged == ~cached_is_none => cached_jobs = loaded

\* C6: when the source cannot be opened or parsed the catalog is empty, and a
\* match call on it returns no matches, total 0 and total_pages 0 (for
\* per_page >= 0), without an exception.
C6_FailedLoadGivesEmptyResult ==
    load_status = "failed" =>
        /\ loaded = <<>> /\ cached_jobs = <<>>
        /\ (call.made /\ call.candidate.is_dict) =>
              /\ ~call.escaped
              /\ call.result.matches = <<>>
              /\ call.result.pagination.total = 0
              /\ call.per_page >= 0 => call.result.pagination.total_pages = 0

\* A call by a candidate with skills on the source csv rejects.
C6_Witness ==
    /\ call.made /\ call.candidate = CandPython /\ call.per_page = MaxPerPage
    /\ call.reread /\ load_status = "failed" /\ source = SourceCsvError

\* C7: whatever the candidate record, page and per_page, the call returns a
\* mapping with a matches list and a pagination block; an exception raised
\* inside gives the empty result.
C7_NoExceptionEscapes ==
    call.made =>
        /\ ~call.escaped
        /\ DOMAIN call.result = {"matches", "pagination"}
        /\ DOMAIN call.result.matches = 1..Len(call.result.matches)
        /\ DOMAIN call.result.pagination = {"total", "page", "per_page", "total_pages"}
        /\ call.exception # "" => call.result = ErrorResult(call.page, call.per_page)

\* A call whose candidate has no readable skills list, and one with
\* per_page = 0, have both been answered.
C7_Witness ==
    /\ call.made /\ call.exception = "TypeError" /\ call.per_page = 0
    /\ ~cached_is_none /\ Len(cached_jobs) > 0

(***************************************************************************)
(* Catalog accesses over a changing source (SpecCache)                     *)
(***************************************************************************)

\* The clock runs for MaxElapsed seconds after the start, in steps of half
\* the cache duration and of one second more.
MaxElapsed == 604

HalfDuration == cache_duration \div 2

\* A catalog access: get_job_categories, or a match call that reaches
\* _get_cached_jobs.
CatalogAccess == GetJobCategories \/ Match(CandPython, 1, 1)

NextCache ==
    \/ Tick(HalfDuration, MaxElapsed)
    \/ Tick(HalfDuration + 1, MaxElapsed)
    \/ \E s \in Sources : ChangeSource(s)
    \/ GetJobCategories
    \/ Match(CandPython, 1, 1)

SpecCache == Init /\ [][NextCache]_vars

\* C1: an access made while now - (time of the last load) <= 300 returns the
\* cached catalog and does not read the source, whatever the source holds
\* by then; an access made after more than 300 seconds (or before any load)
\* reads the source, returns what it holds now and restarts the window.
C1_CacheExpiry ==
    [][CatalogAccess =>
        /\ (~cached_is_none /\ now - last_cache_time <= 300) =>
              /\ ~access'.reread
              /\ access'.returned = cached_jobs
              /\ last_cache_time' = last_cache_time
              /\ loaded' = loaded
        /\ (cached_is_none \/ now - last_cache_time > 300) =>
              /\ access'.reread
              /\ access'.returned = load_jobs_from_csv(source)
              /\ loaded' = load_jobs_from_csv(source)
              /\ last_cache_time' = now]_vars

\* An access made exactly 300 seconds after the load, on a source changed
\* since, got the catalog of the old source.
C1_Witness ==
    /\ access.made /\ access.at = now /\ ~access.reread
    /\ access.at - last_cache_time = 300
    /\ access.returned = loaded
    /\ Len(loaded) > 0
    /\ load_jobs_from_csv(source) # loaded

(***************************************************************************)
(* Pages of large catalogs (SpecPage)                                      *)
(***************************************************************************)

\* The decimal digit of k.
DigitChar(k) == CHOOSE c \in Digits : DigitValue(c) = k

\* Row i of a generated source. Every seventh row is no tech job; every
\* eleventh requires six skills, one of them go; the others require sql,
\* sql and go, nothing, or go. The company column numbers the rows.
CatalogRow(i) ==
    [title |-> IF i % 7 = 0 THEN <<"C", "h", "e", "f">> ELSE <<"I", "T">>,
     role |-> <<"O", "p", "s">>,
     skills |->
        IF i % 11 = 0
        THEN <<"a", ",", "b", ",", "c", ",", "d", ",", "e", ",", "g", "o">>
        ELSE CASE i % 4 = 0 -> <<"s", "q", "l">>
               [] i % 4 = 1 -> <<"s", "q", "l", ",", "g", "o">>
               [] i % 4 = 2 -> <<>>
               [] i % 4 = 3 -> <<"g", "o">>,
     qualifications |-> <<>>,
     company |-> <<"C", DigitChar(i \div 10), DigitChar(i % 10)>>,
     short |-> FALSE]

\* The numbers of rows of the generated sources.
MediumCatalog == 31
LargeCatalog == 66

SourceMedium == SourceFile(AsList([i \in 1..MediumCatalog |-> CatalogRow(i)]))
SourceLarge == SourceFile(AsList([i \in 1..LargeCatalog |-> CatalogRow(i)]))

\* The requested pages run from -PagesBack to LastPage, with one job,
\* PageSize jobs or WholePage jobs (more than the filter returns) per page.
PagesBack == 1
LastPage == 4
PageSize == 10
WholePage == 60

NextPage ==
    \E c \in {CandPython, CandAws}, page \in (0 - PagesBack)..LastPage,
       per_page \in {1, PageSize, WholePage} :
        Match(c, page, per_page)

SpecPage == InitOn({SourceA, SourceMedium, SourceLarge}) /\ [][NextPage]_vars

\* The fields of the last call's result.
Total == call.result.pagination.total
Pages == call.result.pagination.total_pages
Returned == Len(call.result.matches)

\* A call with a readable candidate that raised nothing.
CallCompleted == call.made /\ call.exception = ""

\* The filter's verdicts of the last call's candidate on the loaded catalog.
CallVerdicts == FilterJobs(loaded, CandidateSkillSet(call.candidate))

Minimum(a, b) == IF a < b THEN a ELSE b
Maximum(a, b) == IF a < b THEN b ELSE a

\* C8: for per_page >= 1 and page >= 1, total is the number of jobs the
\* filter returned (at most 50 of the jobs it kept, not the catalog size),
\* total_pages is the ceiling of total / per_page, and the page holds
\* min(per_page, max(0, total - (page - 1) * per_page)) matches.
C8_PaginationArithmetic ==
    (CallCompleted /\ call.per_page >= 1 /\ call.page >= 1) =>
        /\ Total = Len(call.filtered)
        /\ Total = Minimum(TopMatches, Len(KeptRefs(CallVerdicts, 1)))
        /\ Pages * call.per_page >= Total
        /\ (Pages - 1) * call.per_page < Total
        /\ Returned =
              Minimum(call.per_page,
                      Maximum(0, Total - (call.page - 1) * call.per_page))
        /\ call.result.pagination.page = call.page
        /\ call.result.pagination.per_page = call.per_page

\* 25 filtered jobs of a catalog of 31, per_page = 10, page = 3: 5 matches
\* and total_pages = 3.
C8_Witness ==
    /\ CallCompleted /\ call.per_page = 10 /\ call.page = 3
    /\ Len(loaded) = 31 /\ Len(call.filtered) = 25
    /\ Total = 25 /\ Pages = 3 /\ Returned = 5

\* C9: a page outside 1..total_pages (greater than total_pages, or <= 0)
\* returns no matches, and total is still the number of filtered jobs.
C9_OutOfRangePageIsEmpty ==
    (CallCompleted /\ call.per_page >= 1 /\ (call.page > Pages \/ call.page <= 0)) =>
        /\ Returned = 0
        /\ Total = Len(call.filtered)

\* C10: the filter's output has at most 50 entries, its scores do not
\* increase, entries of equal score are in catalog order, and it is the
\* first 50 entries of that order of all kept jobs: every kept job left out
\* ranks after every entry.
C10_FilterOutputShape ==
    CallCompleted =>
        LET out == call.filtered
            kept == {i \in 1..Len(loaded) : CallVerdicts[i].keep}
            score(r) == cached_jobs[r].preliminary_score
            Ranks(r, s) == \/ FracLess(score(s), score(r))
                           \/ score(r) = score(s) /\ r < s
        IN  /\ Len(out) <= 50
            /\ Len(out) = Minimum(50, Cardinality(kept))
            /\ Range(out) \subseteq kept
            /\ \A r \in kept : score(r) = CallVerdicts[r].score
            /\ \A i, j \in 1..Len(out) : i < j => Ranks(out[i], out[j])
            /\ \A r \in Range(out), s \in kept \ Range(out) : Ranks(r, s)

\* A filter run that kept more than 50 jobs, with equal and different
\* scores among the 50 returned, and a kept job of the cut-off score left out.
C10_Witness ==
    /\ CallCompleted
    /\ Len(call.filtered) = 50
    /\ Len(KeptRefs(CallVerdicts, 1)) > 50
    /\ \E i \in 1..49 :
          cached_jobs[call.filtered[i]].preliminary_score
             # cached_jobs[call.filtered[i + 1]].preliminary_score
    /\ \E r \in 1..Len(loaded) :
          /\ CallVerdicts[r].keep
          /\ r \notin Range(call.filtered)
          /\ cached_jobs[r].preliminary_score
                = cached_jobs[call.filtered[50]].preliminary_score

(***************************************************************************)
(* Catalog accesses of several threads, statement by statement             *)
(* (SpecRefresh)                                                           *)
(***************************************************************************)

\* An assignment that keeps the list the cache already holds.
StoreKeepingCached(is_none, old, new) == IF is_none THEN new ELSE old

\* self._cached_jobs = <the list the load returned>: what the cache holds
\* after the assignment.
StoreJobs(is_none, old, new) == new

\* current_time = time.time(), and the test self._cached_jobs is None.
AccessBegin(t) ==
    /\ th[t].pc = "idle"
    /\ th' = [th EXCEPT ![t] =
                 [IdleThread EXCEPT !.pc = IF cached_is_none THEN "load"
                                          ELSE "check_time",
                                    !.current_time = now,
                                    !.expired = cached_is_none]]
    /\ UNCHANGED <<now, source, cached_is_none, cached_jobs, last_cache_time,
                   loaded, load_status, access, call, writer, scored, narrative, postings>>

\* current_time - self._last_cache_time > self._cache_duration
AccessCheckTime(t) ==
    /\ th[t].pc = "check_time"
    /\ \E e \in {CacheExpired(FALSE, last_cache_time, th[t].current_time)} :
          th' = [th EXCEPT ![t].pc = IF e THEN "load" ELSE "return",
                           ![t].expired = e]
    /\ UNCHANGED <<now, source, cached_is_none, cached_jobs, last_cache_time,
                   loaded, load_status, access, call, writer, scored, narrative, postings>>

\* self._load_jobs_from_csv(), before its value is assigned.
AccessLoad(t) ==
    /\ th[t].pc = "load"
    /\ \E jobs \in {load_jobs_from_csv(source)} :
          /\ th' = [th EXCEPT ![t].pc = "store_jobs", ![t].jobs = jobs]
          /\ loaded' = jobs
    /\ load_status' = IF LoadFails(source) THEN "failed" ELSE "ok"
    /\ UNCHANGED <<now, source, cached_is_none, cached_jobs, last_cache_time,
                   access, call, writer, scored, narrative, postings>>

\* self._cached_jobs = ...
AccessStoreJobs(t) ==
    /\ th[t].pc = "store_jobs"
    /\ cached_jobs' = StoreJobs(cached_is_none, cached_jobs, th[t].jobs)
    /\ cached_is_none' = FALSE
    /\ writer' = t
    /\ th' = [th EXCEPT ![t].pc = "store_time"]
    /\ UNCHANGED <<now, source, last_cache_time, loaded, load_status, access,
                   call, scored, narrative, postings>>

\* self._last_cache_time = current_time
AccessStoreTime(t) ==
    /\ th[t].pc = "store_time"
    /\ last_cache_time' = th[t].current_time
    /\ th' = [th EXCEPT ![t].pc = "return"]
    /\ UNCHANGED <<now, source, cached_is_none, cached_jobs, loaded, load_status,
                   access, call, writer, scored, narrative, postings>>

\* return self._cached_jobs: the attribute is read again, so the list is
\* the one assigned last, by this thread or by another.
AccessReturn(t) ==
    /\ th[t].pc = "return"
    /\ th' = [th EXCEPT ![t].pc = "done", ![t].returned = cached_jobs,
                        ![t].from = writer]
    /\ access' = [made |-> TRUE, at |-> th[t].current_time,
                  reread |-> th[t].expired, returned |-> cached_jobs]
    /\ UNCHANGED <<now, source, cached_is_none, cached_jobs, last_cache_time,
                   loaded, load_status, call, writer, scored, narrative, postings>>

\* The request of thread t is over.
ThreadEnd(t) ==
    /\ th[t].pc = "done"
    /\ th' = [th EXCEPT ![t] = IdleThread]
    /\ UNCHANGED <<now, source, cached_is_none, cached_jobs, last_cache_time,
                   loaded, load_status, access, call, writer, scored, narrative, postings>>

\* The source is replaced while no request is running.
ChangeSourceAtRest(s) ==
    /\ \A t \in Threads : th[t].pc = "idle"
    /\ ChangeSource(s)

\* The clock passes the cache duration RefreshRounds times.
RefreshRounds == 2

NextRefresh ==
    \/ Tick(cache_duration + 1, RefreshRounds * (cache_duration + 1))
    \/ \E s \in Sources : ChangeSourceAtRest(s)
    \/ \E t \in Threads :
          \/ AccessBegin(t)
          \/ AccessCheckTime(t)
          \/ AccessLoad(t)
          \/ AccessStoreJobs(t)
          \/ AccessStoreTime(t)
          \/ AccessReturn(t)
          \/ ThreadEnd(t)

SpecRefresh == Init /\ [][NextRefresh]_vars

MatchBegin(t, page, per_page) ==
    /\ th[t].pc = "idle"
    /\ ~CacheExpired(cached_is_none, last_cache_time, now)
    /\ th' = [th EXCEPT ![t] =
                 [IdleThread EXCEPT !.pc = IF Len(cached_jobs) = 0 THEN "sort"
                                          ELSE "filter",
                                    !.candidate = IF t = 1 THEN CandPython ELSE CandAws,
                                    !.page = page, !.per_page = per_page,
                                    !.current_time = now,
                                    !.returned = cached_jobs,
                                    !.from = writer]]
    /\ access' = [made |-> TRUE, at |-> now, reread |-> FALSE,
                  returned |-> cached_jobs]
    /\ UNCHANGED <<now, source, cached_is_none, cached_jobs, last_cache_time,
                   loaded, load_status, call, writer, scored, narrative, postings>>

\* One iteration of the filter's loop: job i of the shared list is tested,
\* and when it is kept its preliminary_score is assigned and a reference to
\* it appended to the thread's filtered_jobs.
FilterStep(t) ==
    /\ th[t].pc = "filter"
    /\ \E i \in {th[t].i + 1} :
       \E verdict \in {FilterJob(cached_jobs[i], CandidateSkillSet(th[t].candidate))} :
          /\ cached_jobs' = [cached_jobs EXCEPT ![i] = AnnotateJob(@, verdict)]
          /\ th' = [th EXCEPT ![t].i = i,
                              ![t].filtered = IF verdict.keep THEN Append(@, i) ELSE @,
                              ![t].pc = IF i = Len(cached_jobs) THEN "sort"
                                        ELSE "filter"]
    /\ UNCHANGED <<now, source, cached_is_none, last_cache_time, loaded,
                   load_status, access, call, writer, scored, narrative, postings>>

\* The sort, which reads the scores the records carry now, the cut to the
\* top matches and the rest of match_candidate_with_jobs.
SortStep(t) ==
    /\ th[t].pc = "sort"
    /\ \E filtered_jobs \in {TakeTop(SortRefs(th[t].filtered, cached_jobs))} :
          th' = [th EXCEPT ![t].pc = "done",
                           ![t].filtered = filtered_jobs,
                           ![t].result = Paginate(cached_jobs, filtered_jobs,
                                                  th[t].candidate, th[t].page,
                                                  th[t].per_page)]
    /\ UNCHANGED <<now, source, cached_is_none, cached_jobs, last_cache_time,
                   loaded, load_status, access, call, writer, scored, narrative, postings>>

\* A first access loads the catalog; then the threads run their match calls
\* for the first page, of one job or more, step by step, while the clock
\* stands inside the window.
NextConc ==
    \/ GetJobCategories
    \/ \E t \in Threads :
          \/ \E per_page \in 1..MaxPerPage : MatchBegin(t, 1, per_page)
          \/ FilterStep(t)
          \/ SortStep(t)
          \/ ThreadEnd(t)

SpecConc == InitOn({SourceA, SourceB}) /\ [][NextConc]_vars

\* What the call of thread t returns when it runs alone on the catalog as
\* loaded.
ResultAlone(t) ==
    OuterExcept(MatchOnCatalog(loaded, th[t].candidate, th[t].page, th[t].per_page),
                th[t].page, th[t].per_page).result

\* C4: for every interleaving of two match calls for different candidates
\* inside one cache window, each call returns the result (jobs, order,
\* pagination) it returns when it runs alone.
C4_ConcurrentMatchAsAlone ==
    \A t \in Threads : th[t].pc = "done" => th[t].result = ResultAlone(t)

(***************************************************************************)
(* Calls of the scorer on candidates and requirements of every shape       *)
(* (SpecScore)                                                             *)
(***************************************************************************)

\* The candidates scored: those of the requests, and candidates with
\* experience entries.
ScoredCandidates ==
    {CandPython, CandAws, CandNone, CandBadSkills,
     \* skills python, sql; no experience entries
     [is_dict |-> TRUE, skills_ok |-> TRUE, skills |-> <<<<"p", "y", "t", "h", "o", "n">>, <<"s", "q", "l">>>>, experience |-> <<>>],
     \* skills python, SQL, Excel; two readable entries, the second without period
     [is_dict |-> TRUE, skills_ok |-> TRUE, skills |-> <<<<"p", "y", "t", "h", "o", "n">>, <<"S", "Q", "L">>, <<"E", "x", "c", "e", "l">>>>, experience |-> <<[period |-> <<"2", "0", "1", "5", "-", "2", "0", "1", "8">>], <<>>>>],
     \* no skills, one entry with period "2020"
     [is_dict |-> TRUE, skills_ok |-> TRUE, skills |-> <<>>, experience |-> <<[period |-> <<"2", "0", "2", "0">>]>>],
     \* an entry whose period is None
     [is_dict |-> TRUE, skills_ok |-> TRUE, skills |-> <<<<"P", "y", "t", "h", "o", "n">>>>, experience |-> <<[period_is_none |-> TRUE]>>],
     \* an entry that is a string
     [is_dict |-> TRUE, skills_ok |-> TRUE, skills |-> <<<<"P", "y", "t", "h", "o", "n">>>>, experience |-> <<[is_dict |-> FALSE]>>]}

\* The requirements scored: those of the loaded jobs, and values of other
\* shapes.
ScoredRequirements ==
    {job.requirements : job \in Range(load_jobs_from_csv(SourceA))
                                  \cup Range(load_jobs_from_csv(SourceB))}
        \cup {\* job_requirements = None
              [is_dict |-> FALSE],
              \* skills Python; the experience field is a list of two lines
              [skills |-> <<<<"P", "y", "t", "h", "o", "n">>>>, experience |-> ListOf(2), education |-> <<>>],
              \* skills SQL, sql, Python; the experience field is []
              [skills |-> <<<<"S", "Q", "L">>, <<"s", "q", "l">>, <<"P", "y", "t", "h", "o", "n">>>>, experience |-> ListOf(0), education |-> <<>>],
              \* skills Go, Rust, Java, C; no experience key
              [skills |-> <<<<"G", "o">>, <<"R", "u", "s", "t">>, <<"J", "a", "v", "a">>, <<"C">>>>],
              \* the skills are the string "Python, SQL , go,rust"; no minimum_years
              [skills_is_str |-> TRUE, skills |-> <<"P", "y", "t", "h", "o", "n", ",", " ", "S", "Q", "L", " ", ",", " ", "g", "o", ",", "r", "u", "s", "t">>, experience |-> [description |-> <<>>], education |-> <<>>],
              \* skills Cobol; minimum_years 5
              [skills |-> <<<<"C", "o", "b", "o", "l">>>>, experience |-> [minimum_years |-> 5, description |-> <<>>], education |-> <<>>],
              \* skills python, sql; minimum_years 2
              [skills |-> <<<<"p", "y", "t", "h", "o", "n">>, <<"s", "q", "l">>>>, experience |-> [minimum_years |-> 2, description |-> <<>>], education |-> <<>>]}

\* The jobs loaded from the sources.
LoadedJobs ==
    Range(load_jobs_from_csv(SourceA)) \cup Range(load_jobs_from_csv(SourceB))
        \cup Range(load_jobs_from_csv(SourceC))

\* One call calculate_match_score_sync(candidate_data, job_requirements),
\* and the match object the caller has assembled from its result.
Scoring(candidate_data, job_requirements, match_obj) ==
    /\ \E exception \in {ScoreException(candidate_data, job_requirements)} :
       \E out \in {ScorerExcept(exception,
                                ScoreBody(candidate_data, job_requirements))} :
       \E listed \in ListedFirst(out.result.ai_analysis.missing_skills) :
          scored' = [made |-> TRUE, candidate |-> candidate_data,
                     requirements |-> job_requirements,
                     exception |-> exception, escaped |-> out.escaped,
                     result |-> out.result,
                     recommendations |->
                        \* the fallback result: "Review complete job
                        \* requirements"
                        IF exception # "" THEN [kind |-> "review", skills |-> {}]
                        ELSE Recommendations(
                                 out.result.ai_analysis.missing_skills, listed),
                     match_obj |-> match_obj]
    /\ UNCHANGED <<now, source, cached_is_none, cached_jobs, last_cache_time,
                   loaded, load_status, access, call, th, writer, narrative, postings>>

\* A call of the scorer on its own.
ScoreCall(candidate_data, job_requirements) ==
    Scoring(candidate_data, job_requirements, NoMatchObject)

\* One iteration of the loop over page_jobs: the scorer is called with the
\* job's requirements and the match object is assembled from its result.
ScoreJob(candidate_data, job) ==
    /\ ~JobRaises(job)
    /\ Scoring(candidate_data, job.requirements, MatchObject(job, candidate_data))

NextScore ==
    \/ \E candidate_data \in ScoredCandidates, job_requirements \in ScoredRequirements :
          ScoreCall(candidate_data, job_requirements)
    \/ \E candidate_data \in ScoredCandidates, job \in LoadedJobs :
          ScoreJob(candidate_data, job)

SpecScore == InitOn({SourceMissing}) /\ [][NextScore]_vars

\* The four scores of the last scorer call.
ScoresReturned ==
    {scored.result.total_score, scored.result.skill_match,
     scored.result.experience_match, scored.result.education_match}

\* C13: each of total_score, skill_match, experience_match and
\* education_match the scorer returns lies in [0, 100]: on the normal path,
\* after the experience adjustment and on the fallback path.
C13_ScoreBounds ==
    scored.made =>
        \A score \in ScoresReturned :
            /\ ~FracLess(score, Frac(0, 1))
            /\ ~FracLess(Frac(100, 1), score)
            /\ score.d > 0

\* A score of 100 that the bonus did not raise, and one of 0 that the penalty
\* did not lower.
C13_WitnessCapped ==
    /\ scored.made /\ scored.exception = ""
    /\ scored.result.ai_analysis.experience_note = "strength"
    /\ scored.result.skill_match = Frac(100, 1)
    /\ scored.result.total_score = Frac(100, 1)

(***************************************************************************)
(* Properties of the filter's gates (Spec)                                 *)
(***************************************************************************)

\* Whether a text, lower-cased, contains a keyword of the domain gate.
HasDomainKeyword(text) ==
    \E keyword \in tech_keywords \cup tech_words : Contains(Lower(text), keyword)

\* The records the filter of the last call returned.
FilterOutput == {cached_jobs[call.filtered[k]] : k \in 1..Len(call.filtered)}

\* C11 as stated: a job whose title contains no domain keyword is never in
\* the filter output, whatever its role and however many of its required
\* skills the candidate has.
C11_TitleAloneGates ==
    call.made => \A job \in FilterOutput : HasDomainKeyword(job.title)

\* C11: a job whose title and role both contain no domain keyword is never
\* in the filter output, however many of its required skills the candidate
\* has.
C11_DomainGate ==
    call.made =>
        \A job \in FilterOutput :
            HasDomainKeyword(job.title) \/ HasDomainKeyword(job.role)

\* The filter has run on a catalog holding a job without any domain keyword
\* all of whose skills the candidate has, and has returned other jobs.
C11_Witness ==
    /\ call.made /\ call.exception = "" /\ call.filtered # <<>>
    /\ \E i \in 1..Len(cached_jobs) :
          /\ ~HasDomainKeyword(cached_jobs[i].title)
          /\ ~HasDomainKeyword(cached_jobs[i].role)
          /\ JobSkillSet(cached_jobs[i]) # {}
          /\ JobSkillSet(cached_jobs[i]) \subseteq CandidateSkillSet(call.candidate)

\* The position of catalog record i in the filter output of the last call,
\* 0 when it is not there.
OutputPosition(i) ==
    IF \E k \in 1..Len(call.filtered) : call.filtered[k] = i
    THEN CHOOSE k \in 1..Len(call.filtered) : call.filtered[k] = i
    ELSE 0

\* The skills of catalog record i that the candidate of the last call has.
SharedSkills(i) == JobSkillSet(cached_jobs[i]) \cap CandidateSkillSet(call.candidate)

\* The domain-relevant records of the catalog that require some skill.
GatedBySkill ==
    {i \in 1..Len(cached_jobs) :
        /\ HasDomainKeyword(cached_jobs[i].title) \/ HasDomainKeyword(cached_jobs[i].role)
        /\ JobSkillSet(cached_jobs[i]) # {}}

\* C12: a domain-relevant job with a non-empty normalized required-skill set
\* is kept by the filter exactly when the candidate shares a skill with it
\* or the set has at most 5 distinct skills (the output is not cut at 50
\* here); a job kept without any shared skill carries preliminary_score 0.
C12_SkillGate ==
    (call.made /\ CandidateReadable(call.candidate) /\ Len(call.filtered) < TopMatches) =>
        \A i \in GatedBySkill :
            /\ OutputPosition(i) # 0
                  <=> (SharedSkills(i) # {}
                          \/ Cardinality(JobSkillSet(cached_jobs[i])) <= 5)
            /\ (OutputPosition(i) # 0 /\ SharedSkills(i) = {})
                  => call.scores[OutputPosition(i)] = Frac(0, 1)

\* One call has kept a job of at most 5 skills none of which the candidate
\* has, with score 0, and has dropped a job of more than 5 such skills.
C12_Witness ==
    /\ call.made /\ CandidateReadable(call.candidate)
    /\ \E i, j \in GatedBySkill :
          /\ SharedSkills(i) = {} /\ SharedSkills(j) = {}
          /\ Cardinality(JobSkillSet(cached_jobs[i])) <= 5
          /\ Cardinality(JobSkillSet(cached_jobs[j])) > 5
          /\ OutputPosition(i) # 0 /\ OutputPosition(j) = 0
          /\ call.scores[OutputPosition(i)] = Frac(0, 1)

(***************************************************************************)
(* Properties of the scorer's results (SpecScore)                          *)
(***************************************************************************)

\* The minimum_years of the requirements of the last scorer call.
ScoredMinimumYears ==
    MinimumYears(ExperienceRequirements(StructuredRequirements(scored.requirements)))

\* The estimated years of the candidate of the last scorer call.
ScoredCandidateYears == CandidateYears(scored.candidate.experience)

\* C14: on a result of the normal path, total_score equals skill_match
\* unless minimum_years > 0 and the candidate has an experience entry; in
\* that case total_score is min(100, skill_match + 10) with a strength note
\* when the estimated years reach minimum_years, max(0, skill_match - 10)
\* with a gap note otherwise.
C14_ExperienceAdjustment ==
    (scored.made /\ scored.exception = "") =>
        LET result == scored.result
            skill_match == result.skill_match
            note == result.ai_analysis.experience_note
        IN  IF ScoredMinimumYears > 0 /\ Len(scored.candidate.experience) > 0
            THEN IF ScoredCandidateYears >= ScoredMinimumYears
                 THEN /\ result.total_score = FracMin(Frac(100, 1), FracAdd(skill_match, 10))
                      /\ note = "strength"
                 ELSE /\ result.total_score = FracMax(Frac(0, 1), FracAdd(skill_match, -10))
                      /\ note = "gap"
            ELSE result.total_score = skill_match /\ note = "none"

\* The distinct lower-cased required skills of the last scorer call.
RequiredLower ==
    {Lower(s) : s \in Range(RequiredSkills(StructuredRequirements(scored.requirements)))}

\* The lower-cased skills of the candidate of the last scorer call.
CandidateLower == {Lower(s) : s \in Range(scored.candidate.skills)}

\* 100 * |matching| / |required| for the last scorer call.
SkillPercentage ==
    Frac(100 * Cardinality(RequiredLower \cap CandidateLower), Cardinality(RequiredLower))

\* C15 as stated: the scorer reports skill_match = 50 for an empty
\* required-skills list and 100 * |matching| / |required| for every
\* non-empty one.
C15_SkillMatchOnEveryResult ==
    scored.made =>
        IF RequiredLower = {} THEN scored.result.skill_match = Frac(50, 1)
        ELSE scored.result.skill_match = SkillPercentage

\* C15: the scorer reports skill_match = 50 for an empty required-skills
\* list; for a non-empty list it reports 100 * |matching| / |required| over
\* the distinct lower-cased required skills when it ends without an internal
\* error, and the fallback's 50 when it does not.
C15_NeutralSkillScore ==
    scored.made =>
        IF RequiredLower = {} THEN scored.result.skill_match = Frac(50, 1)
        ELSE IF scored.exception = "" THEN scored.result.skill_match = SkillPercentage
        ELSE scored.result.skill_match = Frac(50, 1)

\* A job without required skills has been scored on the normal path for a
\* candidate who has skills, and the experience bonus has moved total_score
\* off the 50.
C15_Witness ==
    /\ scored.made /\ scored.exception = "" /\ RequiredLower = {}
    /\ CandidateLower # {}
    /\ scored.result.skill_match = Frac(50, 1)
    /\ scored.result.total_score # Frac(50, 1)

\* C16 as stated: in every result for a non-empty required set,
\* matching_skills and missing_skills are disjoint, their union is the
\* lower-cased required set, and the summary reports |matching| out of
\* |required|.
C16_PartitionOnEveryResult ==
    (scored.made /\ RequiredLower # {}) =>
        LET analysis == scored.result.ai_analysis
        IN  /\ analysis.matching_skills \cap analysis.missing_skills = {}
            /\ analysis.matching_skills \cup analysis.missing_skills = RequiredLower
            /\ analysis.summary = "Candidate matches n out of m required skills"
            /\ analysis.n_matching = Cardinality(analysis.matching_skills)
            /\ analysis.n_required = Cardinality(RequiredLower)

\* C16: in every result for a non-empty required set that the scorer
\* returns without an internal error, matching_skills and missing_skills are
\* disjoint, their union is the lower-cased required set, and the summary
\* reports |matching| out of |required|.
C16_SkillPartition ==
    (scored.made /\ RequiredLower # {} /\ scored.exception = "") =>
        LET analysis == scored.result.ai_analysis
        IN  /\ analysis.matching_skills \cap analysis.missing_skills = {}
            /\ analysis.matching_skills \cup analysis.missing_skills = RequiredLower
            /\ analysis.summary = "Candidate matches n out of m required skills"
            /\ analysis.n_matching = Cardinality(analysis.matching_skills)
            /\ analysis.n_required = Cardinality(RequiredLower)

\* A result of the normal path with skills on both sides of the partition,
\* for requirements that name one skill in two cases.
C16_Witness ==
    /\ scored.made /\ scored.exception = ""
    /\ scored.result.ai_analysis.matching_skills # {}
    /\ scored.result.ai_analysis.missing_skills # {}
    /\ Cardinality(RequiredLower)
          < Cardinality(Range(RequiredSkills(StructuredRequirements(scored.requirements))))

\* Whether the last scorer call was made from the loop over page_jobs, so
\* that a match object was assembled from its result.
MatchAssembled == "job" \in DOMAIN scored.match_obj

\* The experience-adjusted value of a skill percentage, by the note the
\* adjustment left.
AdjustedValue(skill_match, note) ==
    IF note = "strength" THEN FracMin(Frac(100, 1), FracAdd(skill_match, 10))
    ELSE IF note = "gap" THEN FracMax(Frac(0, 1), FracAdd(skill_match, -10))
    ELSE skill_match

WrongShape ==
    \/ ~scored.candidate.is_dict
    \/ ~scored.candidate.skills_ok
    \/ /\ Len(scored.candidate.experience) > 0
       /\ LET exp_requirements ==
                  ExperienceRequirements(StructuredRequirements(scored.requirements))
          IN  ExperienceIsList(exp_requirements) /\ exp_requirements.length > 0

\* The last scorer call returned the fixed fallback.
ReturnedFallback ==
    /\ scored.result.total_score = Frac(50, 1)
    /\ scored.result.skill_match = Frac(50, 1)
    /\ scored.result.experience_match = Frac(50, 1)
    /\ scored.result.education_match = Frac(50, 1)
    /\ scored.result.ai_analysis.matching_skills = {}
    /\ scored.result.ai_analysis.missing_skills = {}
    /\ scored.result.ai_analysis.summary = "Basic skill matching analysis"

\* C18: no exception leaves calculate_match_score_sync, whatever the shape
\* of the candidate and of the requirements; when the try branch fails, as
\* it does on the wrong shapes, the result is the fixed fallback: the four
\* scores 50, matching_skills and missing_skills empty.
C18_ScorerNeverRaises ==
    scored.made =>
        /\ ~scored.escaped
        /\ WrongShape => scored.exception # ""
        /\ scored.exception # "" => ReturnedFallback

\* Requirements whose experience field is a non-empty list, scored for a
\* readable candidate with experience: the fallback is returned although
\* skills are required and nothing has left the scorer.
C18_Witness ==
    /\ scored.made /\ ~scored.escaped
    /\ CandidateReadable(scored.candidate) /\ Len(scored.candidate.experience) > 0
    /\ ExperienceIsList(ExperienceRequirements(StructuredRequirements(scored.requirements)))
    /\ RequiredLower # {}
    /\ ReturnedFallback

\* C19 as stated: the recommendations of every scorer result are
\* min(3, |missing_skills|) lines "Consider learning X" for distinct X in
\* missing_skills when missing_skills is not empty, and the single
\* affirming line otherwise.
C19_RecommendationsOnEveryResult ==
    scored.made =>
        LET missing_skills == scored.result.ai_analysis.missing_skills
        IN  IF missing_skills # {}
            THEN /\ scored.recommendations.kind = "learn"
                 /\ scored.recommendations.skills \subseteq missing_skills
                 /\ Cardinality(scored.recommendations.skills)
                       = Minimum(3, Cardinality(missing_skills))
            ELSE scored.recommendations = [kind |-> "strong", skills |-> {}]

\* C19: the recommendations of a scorer result returned without an internal
\* error are min(3, |missing_skills|) lines "Consider learning X" for
\* distinct X in missing_skills when missing_skills is not empty, and the
\* single affirming line otherwise, also for an empty required set; the
\* fallback result carries the single line "Review complete job
\* requirements".
C19_Recommendations ==
    scored.made =>
        LET missing_skills == scored.result.ai_analysis.missing_skills
        IN  IF scored.exception # ""
            THEN scored.recommendations = [kind |-> "review", skills |-> {}]
            ELSE IF missing_skills # {}
            THEN /\ scored.recommendations.kind = "learn"
                 /\ scored.recommendations.skills \subseteq missing_skills
                 /\ Cardinality(scored.recommendations.skills)
                       = Minimum(3, Cardinality(missing_skills))
            ELSE scored.recommendations = [kind |-> "strong", skills |-> {}]

\* A result with more than 3 missing skills, of which 3 are recommended.
C19_Witness ==
    /\ scored.made /\ scored.exception = ""
    /\ Cardinality(scored.result.ai_analysis.missing_skills) > 3
    /\ scored.recommendations.kind = "learn"
    /\ Cardinality(scored.recommendations.skills) = 3

(***************************************************************************)
(* The scorer calls of one match call (SpecPage)                           *)
(***************************************************************************)

\* The display fields of a match object are those of catalog record r, and
\* its scores those the scorer gives the call's candidate for that record.
ScoredFor(match_obj, r) ==
    /\ match_obj.job.title = cached_jobs[r].title
    /\ match_obj.job.company = cached_jobs[r].company
    /\ match_obj.job.role = cached_jobs[r].role
    /\ match_obj.job.requirements = cached_jobs[r].requirements
    /\ match_obj.match_score
          = calculate_match_score_sync(call.candidate,
                                       cached_jobs[r].requirements).total_score

\* C20: within one match call with per_page >= 1 the scorer is invoked at
\* most min(per_page, 50) times, for consecutive jobs of the filter's output
\* in the filter's order (for page >= 1: those at positions
\* (page - 1) * per_page + 1 ... of it, and no others), and the matches
\* returned are as many, in the same order, each with the display fields of
\* the job it was scored for.
C20_ScoringBoundedByPage ==
    (call.made /\ call.per_page >= 1) =>
        LET invoked == call.scored_jobs
            out == call.filtered
            matches == call.result.matches
            first == (call.page - 1) * call.per_page
        IN  /\ Len(invoked) <= Minimum(call.per_page, 50)
            /\ \E offset \in 0..Len(out) :
                  \A k \in 1..Len(invoked) :
                      offset + k <= Len(out) /\ invoked[k] = out[offset + k]
            /\ call.page >= 1 =>
                  /\ Len(invoked)
                        = Minimum(call.per_page, Maximum(0, Len(out) - first))
                  /\ \A k \in 1..Len(invoked) : invoked[k] = out[first + k]
            /\ Len(matches) = Len(invoked)
            /\ \A k \in 1..Len(matches) : ScoredFor(matches[k], invoked[k])

\* Page 2 of 10 jobs out of 50 filtered jobs: 10 scorer calls, for the
\* jobs at positions 11..20 of the filter's output.
C20_Witness ==
    /\ call.made /\ call.exception = "" /\ call.page = 2 /\ call.per_page = 10
    /\ Len(call.filtered) = 50
    /\ Len(call.scored_jobs) = 10
    /\ call.scored_jobs[1] = call.filtered[11]
    /\ call.scored_jobs[10] = call.filtered[20]
    /\ call.result.matches[10].job.company = cached_jobs[call.filtered[20]].company
    /\ call.result.matches[10].job.company # call.result.matches[1].job.company

(***************************************************************************)
(* Match calls on a catalog with records that fail in the loop             *)
(* (SpecPartial)                                                           *)
(***************************************************************************)

\* A job record without its requirements entry.
WithoutRequirements(job) == [f \in DOMAIN job \ {"requirements"} |-> job[f]]

\* The number of records of the installed catalogs, and the pages requested.
PartialRows == 12
PartialPages == 3
PartialPerPage == 3

\* self._cached_jobs as a caller or a test has assigned it: records like
\* those of the loader, some of them without requirements.
InstalledCatalog(broken) ==
    AsList([i \in 1..PartialRows |->
               IF i \in broken THEN WithoutRequirements(JobOfRow(CatalogRow(i)))
               ELSE JobOfRow(CatalogRow(i))])

InitPartial ==
    /\ now = StartTime
    /\ source = SourceMissing
    /\ cached_is_none = FALSE
    /\ cached_jobs \in {InstalledCatalog(broken) :
                            broken \in {{}, {2}, {2, 6, 10}, {1, 2, 3, 5},
                                        1..PartialRows}}
    /\ last_cache_time = StartTime
    /\ loaded = cached_jobs
    /\ load_status = "ok"
    /\ access = NoAccess
    /\ call = NoCall
    /\ th = [t \in Threads |-> IdleThread]
    /\ writer = 0
    /\ scored = NoScoring
    /\ narrative = NoNarrative
    /\ postings = [table |-> {}, before |-> {}, op |-> "", status |-> "",
                   response |-> 0]

NextPartial ==
    \E c \in {CandPython, CandAws}, page \in 1..PartialPages,
       per_page \in {1, PartialPerPage, PartialRows} :
        Match(c, page, per_page)

SpecPartial == InitPartial /\ [][NextPartial]_vars

\* The positions of the requested page in the filter's output.
PagePositions ==
    {k \in 1..Len(call.filtered) :
        /\ k > (call.page - 1) * call.per_page
        /\ k <= call.page * call.per_page}

\* Those whose record the loop can process.
SoundPositions ==
    {k \in PagePositions : "requirements" \in DOMAIN cached_jobs[call.filtered[k]]}

\* The j-th of them.
SoundPosition(j) ==
    CHOOSE k \in SoundPositions : Cardinality({m \in SoundPositions : m < k}) = j - 1

\* C21: the jobs of the page whose processing raises (records without a
\* requirements entry) are left out of matches; the other jobs of the page
\* are all scored and returned, in the filter's order; total is still the
\* number of jobs the filter returned, failing ones included, and
\* total_pages its ceiling over per_page.
C21_PartialResults ==
    (call.made /\ call.exception = "") =>
        /\ Len(call.result.matches) = Cardinality(SoundPositions)
        /\ \A j \in 1..Len(call.result.matches) :
              ScoredFor(call.result.matches[j], call.filtered[SoundPosition(j)])
        /\ Total = Len(call.filtered)
        /\ Total = Cardinality({i \in 1..Len(cached_jobs) : CallVerdicts[i].keep})
        /\ Pages * call.per_page >= Total
        /\ (Pages - 1) * call.per_page < Total

\* A page with a failing job between two jobs that are returned.
C21_Witness ==
    /\ call.made /\ call.exception = ""
    /\ \E a, b, c \in PagePositions :
          /\ a < b /\ b < c
          /\ a \in SoundPositions /\ c \in SoundPositions /\ b \notin SoundPositions
    /\ Len(call.result.matches) >= 2
    /\ Len(call.result.matches) < Cardinality(PagePositions)
    /\ Total > Len(call.result.matches)

(***************************************************************************)
(* The category matches: JobMatcher.generate_global_matches                *)
(***************************************************************************)

\* self.global_job_categories, in the order of the dict.
global_job_categories ==
    <<[category |-> "Software Development",
       skills |->
         <<<<"p", "r", "o", "g", "r", "a", "m", "m", "i", "n", "g">>,
          <<"s", "o", "f", "t", "w", "a", "r", "e", " ", "d", "e", "v", "e", "l", "o", "p", "m", "e", "n", "t">>,
          <<"c", "o", "d", "i", "n", "g">>,
          <<"a", "l", "g", "o", "r", "i", "t", "h", "m", "s">>,
          <<"d", "a", "t", "a", " ", "s", "t", "r", "u", "c", "t", "u", "r", "e", "s">>,
          <<"v", "e", "r", "s", "i", "o", "n", " ", "c", "o", "n", "t", "r", "o", "l">>,
          <<"t", "e", "s", "t", "i", "n", "g">>,
          <<"d", "e", "b", "u", "g", "g", "i", "n", "g">>,
          <<"p", "r", "o", "b", "l", "e", "m", " ", "s", "o", "l", "v", "i", "n", "g">>>>,
       experience_levels |-> {"Entry Level", "Mid Level", "Senior", "Lead", "Architect"},
       education |->
         <<<<"C", "o", "m", "p", "u", "t", "e", "r", " ", "S", "c", "i", "e", "n", "c", "e">>,
          <<"S", "o", "f", "t", "w", "a", "r", "e", " ", "E", "n", "g", "i", "n", "e", "e", "r", "i", "n", "g">>,
          <<"I", "n", "f", "o", "r", "m", "a", "t", "i", "o", "n", " ", "T", "e", "c", "h", "n", "o", "l", "o", "g", "y">>>>],
      [category |-> "Data Science",
       skills |->
         <<<<"d", "a", "t", "a", " ", "a", "n", "a", "l", "y", "s", "i", "s">>,
          <<"m", "a", "c", "h", "i", "n", "e", " ", "l", "e", "a", "r", "n", "i", "n", "g">>,
          <<"s", "t", "a", "t", "i", "s", "t", "i", "c", "s">>,
          <<"p", "y", "t", "h", "o", "n">>,
          <<"r">>,
          <<"s", "q", "l">>,
          <<"d", "a", "t", "a", " ", "v", "i", "s", "u", "a", "l", "i", "z", "a", "t", "i", "o", "n">>,
          <<"b", "i", "g", " ", "d", "a", "t", "a">>,
          <<"p", "r", "e", "d", "i", "c", "t", "i", "v", "e", " ", "m", "o", "d", "e", "l", "i", "n", "g">>>>,
       experience_levels |-> {"Entry Level", "Mid Level", "Senior", "Lead", "Principal"},
       education |->
         <<<<"D", "a", "t", "a", " ", "S", "c", "i", "e", "n", "c", "e">>,
          <<"C", "o", "m", "p", "u", "t", "e", "r", " ", "S", "c", "i", "e", "n", "c", "e">>,
          <<"S", "t", "a", "t", "i", "s", "t", "i", "c", "s">>,
          <<"M", "a", "t", "h", "e", "m", "a", "t", "i", "c", "s">>>>],
      [category |-> "Business Analysis",
       skills |->
         <<<<"b", "u", "s", "i", "n", "e", "s", "s", " ", "a", "n", "a", "l", "y", "s", "i", "s">>,
          <<"r", "e", "q", "u", "i", "r", "e", "m", "e", "n", "t", "s", " ", "g", "a", "t", "h", "e", "r", "i", "n", "g">>,
          <<"p", "r", "o", "c", "e", "s", "s", " ", "i", "m", "p", "r", "o", "v", "e", "m", "e", "n", "t">>,
          <<"p", "r", "o", "j", "e", "c", "t", " ", "m", "a", "n", "a", "g", "e", "m", "e", "n", "t">>,
          <<"d", "a", "t", "a", " ", "a", "n", "a", "l", "y", "s", "i", "s">>,
          <<"c", "o", "m", "m", "u", "n", "i", "c", "a", "t", "i", "o", "n">>,
          <<"d", "o", "c", "u", "m", "e", "n", "t", "a", "t", "i", "o", "n">>,
          <<"s", "t", "a", "k", "e", "h", "o", "l", "d", "e", "r", " ", "m", "a", "n", "a", "g", "e", "m", "e", "n", "t">>>>,
       experience_levels |-> {"Entry Level", "Mid Level", "Senior", "Lead", "Manager"},
       education |->
         <<<<"B", "u", "s", "i", "n", "e", "s", "s", " ", "A", "d", "m", "i", "n", "i", "s", "t", "r", "a", "t", "i", "o", "n">>,
          <<"M", "a", "n", "a", "g", "e", "m", "e", "n", "t">>,
          <<"E", "c", "o", "n", "o", "m", "i", "c", "s">>,
          <<"F", "i", "n", "a", "n", "c", "e">>>>],
      [category |-> "Marketing",
       skills |->
         <<<<"d", "i", "g", "i", "t", "a", "l", " ", "m", "a", "r", "k", "e", "t", "i", "n", "g">>,
          <<"s", "o", "c", "i", "a", "l", " ", "m", "e", "d", "i", "a">>,
          <<"c", "o", "n", "t", "e", "n", "t", " ", "c", "r", "e", "a", "t", "i", "o", "n">>,
          <<"a", "n", "a", "l", "y", "t", "i", "c", "s">>,
          <<"s", "e", "o">>,
          <<"c", "a", "m", "p", "a", "i", "g", "n", " ", "m", "a", "n", "a", "g", "e", "m", "e", "n", "t">>,
          <<"b", "r", "a", "n", "d", " ", "m", "a", "n", "a", "g", "e", "m", "e", "n", "t">>,
          <<"m", "a", "r", "k", "e", "t", " ", "r", "e", "s", "e", "a", "r", "c", "h">>>>,
       experience_levels |-> {"Entry Level", "Mid Level", "Senior", "Lead", "Director"},
       education |->
         <<<<"M", "a", "r", "k", "e", "t", "i", "n", "g">>,
          <<"C", "o", "m", "m", "u", "n", "i", "c", "a", "t", "i", "o", "n", "s">>,
          <<"B", "u", "s", "i", "n", "e", "s", "s">>,
          <<"M", "e", "d", "i", "a", " ", "S", "t", "u", "d", "i", "e", "s">>>>]>>

\* The candidates of generate_global_matches: skills, experience entries and
\* education entries as the resume parser delivers them.
GlobalCandidates ==
    {[skills |-> <<<<"P", "y", "t", "h", "o", "n">>, <<"S", "Q", "L">>>>,
      experience |-> <<[period |-> <<"2", "0", "1", "9", "-", "2", "0", "2", "1">>]>>,
      education |-> <<[degree |-> <<"B", "a", "c", "h", "e", "l", "o", "r", " ", "o", "f", " ", "S", "c", "i", "e", "n", "c", "e">>]>>],
     [skills |-> <<<<"S", "E", "O">>, <<"A", "n", "a", "l", "y", "t", "i", "c", "s">>>>,
      experience |-> <<[period |-> <<"2", "0", "1", "0", "-", "2", "0", "1", "5">>], [title |-> <<"E", "d", "i", "t", "o", "r">>],
                       [period |-> <<"2", "0", "1", "5", "-", "2", "0", "1", "8", "-", "2", "0", "2", "0">>]>>,
      education |-> <<>>],
     [skills |-> <<>>, experience |-> <<>>,
      education |-> <<[degree |-> <<"M", "a", "s", "t", "e", "r", " ", "o", "f", " ", "A", "r", "t", "s", ",", " ", "P", "h", "D", " ", "c", "a", "n", "d", "i", "d", "a", "t", "e">>], [school |-> <<"M", "I", "T">>]>>]}

\* What model.generate_content does: it raises, or it returns a response
\* whose text is None or a string.
Responses ==
    {[raises |-> TRUE, text_is_str |-> FALSE, text |-> ""],
     [raises |-> FALSE, text_is_str |-> FALSE, text |-> ""],
     [raises |-> FALSE, text_is_str |-> TRUE, text |-> "Here is my analysis"],
     [raises |-> FALSE, text_is_str |-> TRUE, text |-> "[]"],
     [raises |-> FALSE, text_is_str |-> TRUE, text |-> "null"],
     [raises |-> FALSE, text_is_str |-> TRUE, text |-> "{}"],
     [raises |-> FALSE, text_is_str |-> TRUE,
      text |-> "{\"Data Science\": {\"summary\": \"strong\"}}"]}

\* _batch_analyze_categories on the response of the one generate_content
\* call it makes: the value of json.loads(response.text), or {} when the
\* call or the read of the text raises (except Exception) and when the text
\* is no JSON (except json.JSONDecodeError). A Python value is given by its
\* type and, for a dict, its items.
batch_analyze_categories(response) ==
    LET empty == [type |-> "dict", items |-> {}]
        \* json.loads on the texts of Responses
        json_loads(text) ==
            CASE text = "[]" -> [decodes |-> TRUE, value |-> [type |-> "list", items |-> {}]]
              [] text = "null" -> [decodes |-> TRUE, value |-> [type |-> "NoneType", items |-> {}]]
              [] text = "{}" -> [decodes |-> TRUE, value |-> empty]
              [] text = "{\"Data Science\": {\"summary\": \"strong\"}}" ->
                    [decodes |-> TRUE,
                     value |-> [type |-> "dict",
                                items |-> {[key |-> "Data Science",
                                            value |-> [summary |-> "strong"]]}]]
              [] OTHER -> [decodes |-> FALSE, value |-> empty]
    IN  IF response.raises \/ ~response.text_is_str THEN empty
        ELSE IF json_loads(response.text).decodes
             THEN json_loads(response.text).value
             ELSE empty

\* return matches[:5]
TopCategories == 5

\* generate_global_matches(candidate_data) when model.generate_content
\* answers with response: the matches returned, or the exception that leaves
\* the function (all_categories_analysis.get is called outside any try).
\* match_score is in hundredths (round(match_score, 2)).
generate_global_matches(candidate_data, response) ==
    LET candidate_skill_set == {Lower(s) : s \in Range(candidate_data.skills)}
        \* calculate_years_of_experience
        years_of_experience ==
            LET counted == {i \in 1..Len(candidate_data.experience) :
                              "period" \in DOMAIN candidate_data.experience[i]}
                RECURSIVE Sum(_)
                Sum(at) ==
                    IF at = {} THEN 0
                    ELSE LET i == CHOOSE j \in at : TRUE
                         IN  Len(SplitOn(candidate_data.experience[i].period, "-"))
                                + Sum(at \ {i})
            IN  Sum(counted)
        \* determine_experience_level
        experience_level ==
            IF years_of_experience < 2 THEN "Entry Level"
            ELSE IF years_of_experience < 5 THEN "Mid Level"
            ELSE IF years_of_experience < 8 THEN "Senior"
            ELSE IF years_of_experience < 12 THEN "Lead"
            ELSE "Principal"
        \* get_highest_education_level
        levels == {[level |-> <<"p", "h", "d">>, value |-> 5],
                   [level |-> <<"m", "a", "s", "t", "e", "r">>, value |-> 4],
                   [level |-> <<"b", "a", "c", "h", "e", "l", "o", "r">>, value |-> 3],
                   [level |-> <<"a", "s", "s", "o", "c", "i", "a", "t", "e">>, value |-> 2],
                   [level |-> <<"h", "i", "g", "h", " ", "s", "c", "h", "o", "o", "l">>, value |-> 1]}
        education_level ==
            LET found == {l.value : l \in
                            {l \in levels :
                               \E i \in 1..Len(candidate_data.education) :
                                  /\ "degree" \in DOMAIN candidate_data.education[i]
                                  /\ Contains(Lower(candidate_data.education[i].degree),
                                              l.level)}}
            IN  IF found = {} THEN 0 ELSE CHOOSE v \in found : \A w \in found : w <= v
        all_categories_analysis == batch_analyze_categories(response)
        MatchOf(requirements) ==
            LET required_skill_set == {Lower(s) : s \in Range(requirements.skills)}
                matching_skills == candidate_skill_set \cap required_skill_set
                missing_skills == required_skill_set \ candidate_skill_set
                a == Cardinality(matching_skills)
                b == Cardinality(required_skill_set)
                \* str(education_level) is the one digit of the level
                education_matches ==
                    \E i \in 1..Len(requirements.education) :
                        Contains(<<DigitChar(education_level)>>,
                                 Lower(requirements.education[i]))
                match_score ==
                    (IF b = 0 THEN 2500 ELSE (2 * 5000 * a + b) \div (2 * b))
                    + (IF experience_level \in requirements.experience_levels
                       THEN 3000 ELSE 1500)
                    + (IF education_matches THEN 2000 ELSE 1000)
                given == {it \in all_categories_analysis.items :
                            it.key = requirements.category}
                ai_analysis ==
                    IF given # {} THEN (CHOOSE it \in given : TRUE).value
                    ELSE [summary |-> <<"Quick analysis for", requirements.category>>,
                          strengths |-> [experience_level |-> experience_level,
                                         matching |-> a, out_of |-> b],
                          gaps |-> <<>>,
                          recommendations |->
                            <<"Consider gaining more experience in this field",
                              "Look for opportunities to develop required skills">>,
                          matching_skills |-> matching_skills,
                          missing_skills |-> missing_skills]
            IN  [category |-> requirements.category, match_score |-> match_score,
                 experience_level |-> experience_level,
                 required_skills |-> requirements.skills,
                 ai_analysis |-> ai_analysis]
        n == Len(global_job_categories)
        matches == AsList([i \in 1..n |-> MatchOf(global_job_categories[i])])
        \* matches.sort(key=match_score, reverse=True): stable
        rank(i) == 1 + Cardinality({j \in 1..n :
                        \/ matches[j].match_score > matches[i].match_score
                        \/ /\ matches[j].match_score = matches[i].match_score
                           /\ j < i})
        sorted == AsList([p \in 1..n |-> matches[CHOOSE i \in 1..n : rank(i) = p]])
    IN  IF all_categories_analysis.type # "dict"
        THEN [raised |-> TRUE, exception |-> "AttributeError", matches |-> <<>>]
        ELSE [raised |-> FALSE, exception |-> "",
              matches |-> SubSeq(sorted, 1, Minimum(n, TopCategories))]


\* generate_global_matches(candidate_data), with the response its one
\* model.generate_content call gets.
MaxCalls == 1

GenerateGlobalMatches(candidate_data, response) ==
    /\ narrative.calls < MaxCalls
    /\ \E r \in {generate_global_matches(candidate_data, response)} :
          narrative' = [made |-> TRUE, candidate |-> candidate_data,
                        response |-> response, calls |-> narrative.calls + 1,
                        raised |-> r.raised, matches |-> r.matches]
    /\ UNCHANGED <<now, source, cached_is_none, cached_jobs, last_cache_time,
                   loaded, load_status, access, call, th, writer, scored,
                   postings>>

\* Match requests with use_ai on and off, for candidates the scorer reads
\* and one whose experience entry is a string, and category matches under
\* every response.
NextNarrative ==
    \/ \E c \in {CandPython, CandNone,
                 [is_dict |-> TRUE, skills_ok |-> TRUE,
                  skills |-> <<<<"P", "y", "t", "h", "o", "n">>>>,
                  experience |-> <<[is_dict |-> FALSE]>>]},
          per_page \in {1, PageSize}, use_ai \in BOOLEAN :
            MatchRequest(c, 1, per_page, use_ai)
    \/ \E c \in GlobalCandidates, response \in Responses :
            GenerateGlobalMatches(c, response)

SpecNarrative == InitOn({SourceA}) /\ [][NextNarrative]_vars

\* The analysis of a returned match is the scorer's own: computed from the
\* lower-cased skill sets or, when the scorer's try branch raised, its fixed
\* fallback.
ScorerAnalysis(match, candidate_data) ==
    LET required == {Lower(s) : s \in Range(match.job.requirements.skills)}
        held == {Lower(s) : s \in Range(candidate_data.skills)}
    IN  IF ScoreException(candidate_data, match.job.requirements) # ""
        THEN match.ai_analysis = FallbackResult.ai_analysis
        ELSE /\ match.ai_analysis.matching_skills = required \cap held
             /\ match.ai_analysis.missing_skills = required \ held
             /\ match.ai_analysis.n_matching = Cardinality(required \cap held)
             /\ match.ai_analysis.n_required = Cardinality(required)
             /\ match.ai_analysis.summary = "Candidate matches n out of m required skills"

\* C22: a match_candidate_with_jobs call with use_ai = False makes no
\* model.generate_content invocation, and the analysis of every match it
\* returns is the one the scorer computes from the skill sets of the
\* candidate and the job.
C22_NoNarrativeWithoutAi ==
    [][MatchRequest(call'.candidate, call'.page, call'.per_page, FALSE) =>
          /\ narrative'.calls = narrative.calls
          /\ \A k \in 1..Len(call'.result.matches) :
                ScorerAnalysis(call'.result.matches[k], call'.candidate)]_vars

\* A call with use_ai = False that returned matches, after the model has
\* been invoked for category matches.
C22_Witness ==
    /\ call.made /\ ~call.use_ai
    /\ Len(call.result.matches) > 0
    /\ \E k \in 1..Len(call.result.matches) :
          call.result.matches[k].ai_analysis.matching_skills # {}
    /\ narrative.made /\ narrative.calls = 1

\* C23: whatever model.generate_content does (it raises, it returns text
\* that is no JSON, it returns JSON that is no mapping, such as an array),
\* generate_global_matches raises nothing and returns, for every category,
\* the analysis it computes itself from the skill sets.
C23_ResponseTolerated ==
    (/\ narrative.made
     /\ \/ narrative.response.raises
        \/ narrative.response.text \in {"Here is my analysis", "[]"}) =>
        /\ ~narrative.raised
        /\ Len(narrative.matches) = Len(global_job_categories)
        /\ \A k \in 1..Len(narrative.matches) :
              "matching_skills" \in DOMAIN narrative.matches[k].ai_analysis

(***************************************************************************)
(* Loads of sources around the row limit (SpecLoad)                        *)
(***************************************************************************)

\* The number of rows of the longest source.
LongRows == 103

\* A source of n numbered rows; the rows at the positions skipped have a
\* blank title (even positions) or too few fields (odd positions). The
\* Qualifications column asks for experience with each of the three cues,
\* without a cue, or is empty.
LongSource(n, skipped) ==
    SourceFile(AsList([i \in 1..n |->
        IF i \in skipped
        THEN IF i % 2 = 0 THEN RowBlankTitle ELSE RowShort
        ELSE [CatalogRow(i % 100) EXCEPT
                 !.company = <<"L", DigitChar(i \div 100),
                               DigitChar((i \div 10) % 10), DigitChar(i % 10)>>,
                 !.qualifications =
                    CASE i % 5 = 0 -> <<"M", "i", "n", "i", "m", "u", "m", " ", "3", " ", "y", "e", "a", "r", "s", " ", "e", "x", "p", "e", "r", "i", "e", "n", "c", "e">>
                      [] i % 5 = 1 -> <<"A", "t", " ", "l", "e", "a", "s", "t", " ", "5", " ", "y", "e", "a", "r", "s", " ", "o", "f", " ", "e", "x", "p", "e", "r", "i", "e", "n", "c", "e">>
                      [] i % 5 = 2 -> <<"m", "o", "r", "e", " ", "t", "h", "a", "n", " ", "2", " ", "y", "e", "a", "r", "s", " ", "i", "n", " ", "I", "T">>
                      [] i % 5 = 3 -> <<"B", "a", "c", "h", "e", "l", "o", "r", " ", "d", "e", "g", "r", "e", "e", ",", " ", "e", "x", "p", "e", "r", "i", "e", "n", "c", "e", " ", "w", "e", "l", "c", "o", "m", "e">>
                      [] i % 5 = 4 -> <<>>]]))

\* Sources just below, at and above the limit, without and with skipped
\* rows before it.
LongSources ==
    {LongSource(n, skipped) :
        n \in {RowLimit - 1, RowLimit, LongRows},
        skipped \in {{}, {3, 50}, {8, RowLimit}}}

\* Catalog accesses on one long source while the clock runs.
NextLoad ==
    \/ Tick(HalfDuration + 1, MaxElapsed)
    \/ GetJobCategories

SpecLoad == InitOn(LongSources) /\ [][NextLoad]_vars

\* The positions of the rows of the source that the loop accepts when it
\* reaches them: the title is not blank and the row parses.
AcceptedRows ==
    {i \in 1..Len(source.rows) :
        ~RowRaises(source.rows[i]) /\ Len(Strip(source.rows[i].title)) > 0}

\* The k-th position of a set of positions.
KthOf(at, k) == CHOOSE i \in at : Cardinality({j \in at : j < i}) = k - 1

\* C24 as stated: the catalog is the first min(100, n) accepted rows of the
\* source, n the number of its accepted rows; skipped rows do not count
\* towards the 100.
C24_HundredAcceptedRows ==
    load_status = "ok" =>
        /\ Len(loaded) = Minimum(RowLimit, Cardinality(AcceptedRows))
        /\ \A k \in 1..Len(loaded) :
              loaded[k] = JobOfRow(source.rows[KthOf(AcceptedRows, k)])

\* C24: the catalog is the accepted rows among the first 100 rows of the
\* source, in source order: loading stops once 100 rows have been read, and
\* a row skipped for a blank title or a parse error counts as read.
C24_HundredRowsRead ==
    load_status = "ok" =>
        LET read == {i \in AcceptedRows : i <= RowLimit}
        IN  /\ Len(loaded) = Cardinality(read)
            /\ \A k \in 1..Len(loaded) :
                  loaded[k] = JobOfRow(source.rows[KthOf(read, k)])

\* A load of a source of more than 100 rows with skipped rows among the
\* first 100 and accepted rows behind them.
C24_Witness ==
    /\ load_status = "ok"
    /\ Len(source.rows) > RowLimit
    /\ \E i \in 1..RowLimit : i \notin AcceptedRows
    /\ \E i \in AcceptedRows : i > RowLimit
    /\ Len(loaded) < RowLimit
    /\ Len(loaded) > 0

\* C25: every record of the cached catalog, and of the catalog the last
\* access returned, has a title that is not empty; a row whose Job Title is
\* blank after trimming is dropped and the rows behind it are loaded.
C25_NoBlankTitle ==
    /\ \A i \in 1..Len(cached_jobs) : Len(cached_jobs[i].title) > 0
    /\ \A i \in 1..Len(access.returned) : Len(access.returned[i].title) > 0
    /\ (access.made /\ access.reread /\ load_status = "ok") =>
          \A i \in 1..Len(source.rows) :
             (i <= RowLimit /\ ~RowRaises(source.rows[i])
                /\ Len(Strip(source.rows[i].title)) > 0) =>
                \E k \in 1..Len(access.returned) :
                    /\ access.returned[k].title = Strip(source.rows[i].title)
                    /\ access.returned[k].company = source.rows[i].company

\* A catalog loaded from a source with a blank title between two rows that
\* are loaded.
C25_Witness ==
    /\ access.made /\ access.reread /\ load_status = "ok"
    /\ \E i, j, k \in 1..Len(source.rows) :
          /\ i < j /\ j < k
          /\ Len(Strip(source.rows[j].title)) = 0
          /\ Len(Strip(source.rows[i].title)) > 0
          /\ Len(Strip(source.rows[k].title)) > 0
    /\ Len(access.returned) = Len(source.rows) - 1

\* The numbers N for which the text has a cue ("minimum", "at least", "more
\* than") immediately followed by N.
CuedYears(qualifications) ==
    {N \in 0..9 : \E cue \in minimum_cues :
        Contains(Lower(qualifications), cue \o <<" ", DigitChar(N), " ">>)}

\* C26: for a Qualifications line that mentions experience or years, a cue
\* "minimum", "at least" or "more than" immediately followed by a number N
\* gives minimum_years = N in the job loaded from the row; a text without
\* such a cue gives minimum_years = 0.
C26_MinimumYearsFromCue ==
    load_status = "ok" =>
        LET read == {i \in AcceptedRows : i <= RowLimit}
        IN  \A k \in 1..Len(loaded) :
               LET q == source.rows[KthOf(read, k)].qualifications
                   years == loaded[k].requirements.experience.minimum_years
               IN  /\ CuedYears(q) # {} => years \in CuedYears(q)
                   /\ CuedYears(q) = {} => years = 0

\* C27: for a candidate without experience entries the scorer makes no
\* experience adjustment: total_score is skill_match and the analysis has no
\* experience note. With skills python and sql against the required skills
\* python, sql and aws, skill_match is 200/3, matching_skills is {python,
\* sql}, missing_skills is {aws} and the recommendations are the one line
\* "Consider learning aws".
C27_NoExperienceScoring ==
    (scored.made /\ Len(scored.candidate.experience) = 0) =>
        /\ scored.result.total_score = scored.result.skill_match
        /\ scored.result.ai_analysis.match_score = scored.result.skill_match
        /\ scored.result.ai_analysis.experience_note = "none"
        /\ (/\ scored.exception = ""
            /\ CandidateLower = {<<"p", "y", "t", "h", "o", "n">>, <<"s", "q", "l">>}
            /\ RequiredLower = {<<"p", "y", "t", "h", "o", "n">>, <<"s", "q", "l">>,
                                <<"a", "w", "s">>}) =>
              /\ scored.result.skill_match = Frac(200, 3)
              /\ scored.result.ai_analysis.matching_skills
                    = {<<"p", "y", "t", "h", "o", "n">>, <<"s", "q", "l">>}
              /\ scored.result.ai_analysis.missing_skills = {<<"a", "w", "s">>}
              /\ scored.recommendations
                    = [kind |-> "learn", skills |-> {<<"a", "w", "s">>}]

\* The candidate with python and sql and no experience entries, scored
\* against a job that requires python, sql, aws and three years.
C27_Witness ==
    /\ scored.made /\ scored.exception = ""
    /\ Len(scored.candidate.experience) = 0
    /\ CandidateLower = {<<"p", "y", "t", "h", "o", "n">>, <<"s", "q", "l">>}
    /\ RequiredLower = {<<"p", "y", "t", "h", "o", "n">>, <<"s", "q", "l">>,
                        <<"a", "w", "s">>}
    /\ ScoredMinimumYears = 3
    /\ scored.result.total_score = Frac(200, 3)

\* C28: an empty catalog from a failed load is cached like any other: an
\* access made within 300 seconds of the failed load returns the empty
\* catalog and does not read the source, even when the source can be read by
\* then, and leaves the window as it is; the first access made more than 300
\* seconds after the failed load reads the source again.
C28_FailedLoadCached ==
    [][(CatalogAccess /\ load_status = "failed" /\ ~cached_is_none) =>
          IF now - last_cache_time <= cache_duration
          THEN /\ ~access'.reread
               /\ access'.returned = <<>>
               /\ cached_jobs' = <<>>
               /\ last_cache_time' = last_cache_time
               /\ load_status' = "failed"
          ELSE /\ access'.reread
               /\ access'.returned = load_jobs_from_csv(source)
               /\ last_cache_time' = now]_vars

\* An access inside the window of a failed load returned the empty catalog
\* although the source holds jobs by then.
C28_Witness ==
    /\ access.made /\ ~access.reread /\ access.at > last_cache_time
    /\ load_status = "failed"
    /\ access.returned = <<>>
    /\ Len(load_jobs_from_csv(source)) > 0

\* C29: for every job of the returned page with a non-empty required-skills
\* list, the skill_match the scorer computed is the preliminary_score the
\* filter gave the job in the same call.
C29_FilterScorerAgree ==
    (call.made /\ call.exception = "" /\ call.page >= 1 /\ call.per_page >= 1) =>
        \A k \in 1..Len(call.result.matches) :
            LET match == call.result.matches[k]
            IN  Len(match.job.requirements.skills) > 0 =>
                   match.skill_match = call.scores[(call.page - 1) * call.per_page + k]

(***************************************************************************)
(* The job API: create_job, update_job, delete_job, update_job_status      *)
(* (SpecJobs)                                                              *)
(***************************************************************************)

\* The largest id a posting gets.
MaxPostingId == 2

\* valid_statuses of update_job_status
valid_statuses == {"active", "closed", "draft", "archived"}

\* The job API leaves every other variable alone; a request is recorded with
\* the status it carried ("" for none) and the response code.
JobRequest(table, op, data, response) ==
    /\ postings' = [table |-> table, before |-> postings.table, op |-> op,
                    status |-> IF data.has_status THEN data.status ELSE "",
                    response |-> response]
    /\ UNCHANGED <<now, source, cached_is_none, cached_jobs, last_cache_time,
                   loaded, load_status, access, call, th, writer, scored,
                   narrative>>

\* POST /api/jobs: a request without the required fields is answered 400;
\* otherwise the posting is stored with data.get('status', 'draft') and the
\* next id of the table.
create_job(data, complete) ==
    LET ids == {p.id : p \in postings.table}
        id == IF ids = {} THEN 1 ELSE 1 + (CHOOSE i \in ids : \A j \in ids : j <= i)
        status == IF data.has_status THEN data.status ELSE "draft"
    IN  IF ~complete THEN JobRequest(postings.table, "create_job", data, 400)
        ELSE /\ id <= MaxPostingId
             /\ JobRequest(postings.table \cup {[id |-> id, status |-> status]},
                           "create_job", data, 200)

\* PUT /api/jobs/<job_id>: get_or_404, then job.status = data.get('status',
\* job.status).
update_job(job_id, data) ==
    IF \A p \in postings.table : p.id # job_id
    THEN JobRequest(postings.table, "update_job", data, 404)
    ELSE JobRequest({IF p.id = job_id /\ data.has_status
                     THEN [p EXCEPT !.status = data.status] ELSE p :
                        p \in postings.table},
                    "update_job", data, 200)

\* DELETE /api/jobs/<job_id>
delete_job(job_id) ==
    IF \A p \in postings.table : p.id # job_id
    THEN JobRequest(postings.table, "delete_job",
                    [has_status |-> FALSE, status |-> ""], 404)
    ELSE JobRequest({p \in postings.table : p.id # job_id}, "delete_job",
                    [has_status |-> FALSE, status |-> ""], 200)

\* PUT /api/jobs/<job_id>/status: get_or_404; data.get('status') that is
\* not one of valid_statuses (None included) is answered 400.
update_job_status(job_id, data) ==
    IF \A p \in postings.table : p.id # job_id
    THEN JobRequest(postings.table, "update_job_status", data, 404)
    ELSE IF ~data.has_status \/ data.status \notin valid_statuses
    THEN JobRequest(postings.table, "update_job_status", data, 400)
    ELSE JobRequest({IF p.id = job_id THEN [p EXCEPT !.status = data.status] ELSE p :
                        p \in postings.table},
                    "update_job_status", data, 200)

\* Requests with one of the four statuses, with another one, and without.
NextJobs ==
    \E job_id \in 1..MaxPostingId,
       data \in {[has_status |-> FALSE, status |-> ""]}
                  \cup {[has_status |-> TRUE, status |-> s] :
                           s \in valid_statuses \cup {"published"}} :
        \/ \E complete \in BOOLEAN : create_job(data, complete)
        \/ update_job(job_id, data)
        \/ delete_job(job_id)
        \/ update_job_status(job_id, data)

SpecJobs == InitOn({SourceMissing}) /\ [][NextJobs]_vars

\* C30: after any sequence of create_job, update_job, update_job_status and
\* delete_job requests every stored posting has one of the four statuses;
\* an update_job_status request with another status is answered with an
\* error and leaves the table as it was.
C30_StatusInvariant ==
    /\ \A p \in postings.table : p.status \in valid_statuses
    /\ (postings.op = "update_job_status" /\ postings.status \notin valid_statuses) =>
          /\ postings.response # 200
          /\ postings.table = postings.before

====
